---- MODULE Spec2Model ----
(***************************************************************************)
(* A model of the suchbar crate: the walker that turns a parsed search     *)
(* query into an SQLTerm tree (suchbar.rs), the emitter of that tree       *)
(* (sql_term.rs), the per-field coercion and escaping (db_field.rs) and    *)
(* the comparator algebra (comp_op.rs).                                    *)
(*                                                                         *)
(* Representation.  A Rust String is a sequence of tokens.  Text that      *)
(* comes from the user (values) is a sequence of one-character strings,    *)
(* so escaping is modelled character by character.  Text that the program  *)
(* itself supplies is kept as one token per piece: a column name           *)
(* ("age"), a comparator ("<="), a keyword (" LIKE ", "NOT "), a date      *)
(* rendered by the date helper ("2023-02-01").  Two emitted strings are    *)
(* equal in the model only if they are made of the same pieces in the same *)
(* order, which implies equality of the Rust strings.                      *)
(*                                                                         *)
(* A Result is a record: [ok |-> TRUE, v |-> value] or                     *)
(* [ok |-> FALSE, err |-> kind, msg |-> tag].                              *)
(***************************************************************************)
EXTENDS Integers, Sequences, FiniteSets, TLC

VARIABLES
    \* ---- Suchbar::exec and the WhereClause it returns (suchbar.rs)
    permission,   \* the tokens for which has_perm succeeds
    options,      \* SuchOptions
    query,        \* the parse tree of the query text
    pc,           \* "start" before exec, "done" after it, "idle" elsewhere
    sql_term,     \* WhereClause.sql_term
    sort_field,   \* WhereClause.sort_field
    result,       \* the last call on the WhereClause and what it returned
    \* ---- SQLTerm::to_sql called on a tree built by hand (sql_term.rs)
    term,         \* the tree
    wraps,        \* how many NOT nodes were put around the initial tree
    emitted,      \* the last to_sql result
    \* ---- a single DbField / CompOp operation (db_field.rs, comp_op.rs)
    field,        \* the DbField
    cmp,          \* the comparator
    cmp0,         \* the comparator before any negation
    negs,         \* how many times it was negated
    dir,          \* timewarp::Direction
    val,          \* the raw value
    fres          \* the last operation and what it returned

vars == <<permission, options, query, pc, sql_term, sort_field, result,
          term, wraps, emitted, field, cmp, cmp0, negs, dir, val, fres>>

execVars  == <<permission, options, query, pc, sql_term, sort_field, result>>
emitVars  == <<term, wraps, emitted>>
fieldVars == <<field, cmp, cmp0, negs, dir, val, fres>>

(***************************************************************************)
(* Bounds of the model.                                                    *)
(***************************************************************************)
MaxLen == 2      \* length of the raw values handed to a single field operation
MaxNeg == 2      \* negations applied to one comparator
MaxValLen == 1   \* length of the values typed in a query
MaxInv == 2      \* NOT / ! in front of one atom
MaxAtoms == 3    \* atoms of one expr
MaxSort == 2     \* items of a sort clause
MaxKids == 3     \* children of a hand-built AND / OR node
MaxNot == 3      \* NOT nodes put around a hand-built tree

(***************************************************************************)
(* Strings and results.                                                    *)
(***************************************************************************)
Strs(A, lo, hi) == UNION {[1..n -> A] : n \in lo..hi}

RECURSIVE Flatten(_)
Flatten(ss) == IF ss = <<>> THEN <<>> ELSE Head(ss) \o Flatten(Tail(ss))

RECURSIVE Join(_, _)
Join(ss, sep) ==
    IF ss = <<>> THEN <<>>
    ELSE IF Len(ss) = 1 THEN ss[1]
    ELSE ss[1] \o sep \o Join(Tail(ss), sep)

Contains(s, c) == \E i \in 1..Len(s) : s[i] = c

Without(s, c) == SelectSeq(s, LAMBDA x : x # c)

Replace(s, c, by) == [i \in 1..Len(s) |-> IF s[i] = c THEN by ELSE s[i]]

Ok(v) == [ok |-> TRUE, v |-> v]

Err(kind, msg) == [ok |-> FALSE, err |-> kind, msg |-> msg]

ParseError(msg) == Err("ParseError", msg)

unwrap_or_default(r) == IF r.ok THEN r.v ELSE <<>>

(***************************************************************************)
(* comp_op.rs                                                              *)
(***************************************************************************)
CompOp == {"Equal", "NotEqual", "Gt", "Lt", "Gte", "Lte"}

CompOp_fmt(c) ==
    CASE c = "Equal"    -> "="
      [] c = "Gt"       -> ">"
      [] c = "Gte"      -> ">="
      [] c = "Lt"       -> "<"
      [] c = "Lte"      -> "<="
      [] c = "NotEqual" -> "!="

CompOp_from_str(s) ==
    CASE s \in {"=", "=="}  -> Ok("Equal")
      [] s \in {">=", "=>"} -> Ok("Gte")
      [] s = ">"            -> Ok("Gt")
      [] s \in {"<=", "=<"} -> Ok("Lte")
      [] s = "<"            -> Ok("Lt")
      [] s \in {"!=", "=!"} -> Ok("NotEqual")
      [] OTHER              -> ParseError("is no comparator!")

\* A slip in the Not table: Gte negated to Lte instead of Lt.
CompOp_not_mut(c) ==
    CASE c = "Equal"    -> "NotEqual"
      [] c = "NotEqual" -> "Equal"
      [] c = "Gt"       -> "Lte"
      [] c = "Gte"      -> "Lte"
      [] c = "Lte"      -> "Gt"
      [] c = "Lt"       -> "Gte"

CompOp_not(c) ==
    CASE c = "Equal"    -> "NotEqual"
      [] c = "NotEqual" -> "Equal"
      [] c = "Gt"       -> "Lte"
      [] c = "Gte"      -> "Lt"
      [] c = "Lte"      -> "Gt"
      [] c = "Lt"       -> "Gte"

(***************************************************************************)
(* The standard library and the date helper, as far as the code uses them. *)
(***************************************************************************)
Digit == [c \in {"0", "1", "2", "3", "4", "5", "6", "7", "8", "9"} |->
            CASE c = "0" -> 0 [] c = "1" -> 1 [] c = "2" -> 2 [] c = "3" -> 3
              [] c = "4" -> 4 [] c = "5" -> 5 [] c = "6" -> 6 [] c = "7" -> 7
              [] c = "8" -> 8 [] c = "9" -> 9]

is_ascii_digit(c) == c \in DOMAIN Digit

\* The decimal value, kept at 100000 once it is above: the value is only
\* compared with the bounds of INTEGER(min, max), all below that.
RECURSIVE DecValue(_)
DecValue(s) ==
    IF s = <<>> THEN 0
    ELSE LET d == 10 * DecValue(SubSeq(s, 1, Len(s) - 1)) + Digit[s[Len(s)]]
         IN  IF d > 100000 THEN 100000 ELSE d

\* u64::from_str: an optional "+", then one or more digits.  (The values of
\* the model have fewer than 20 digits, so the u64 does not overflow.)
u64_from_str(s) ==
    LET body == IF s # <<>> /\ s[1] = "+" THEN Tail(s) ELSE s
    IN  IF body # <<>> /\ \A i \in 1..Len(body) : is_ascii_digit(body[i])
        THEN Ok(DecValue(body))
        ELSE Err("ParseIntError", "invalid digit")

\* f64::from_str on strings of signs, digits and dots: an optional sign, then
\* digits with at most one ".", at least one digit.  (Exponents, "inf" and
\* "nan" need letters the values of the model do not combine to.)
f64_from_str_ok(s) ==
    LET body == IF s # <<>> /\ s[1] \in {"+", "-"} THEN Tail(s) ELSE s
    IN  /\ \A i \in 1..Len(body) : is_ascii_digit(body[i]) \/ body[i] = "."
        /\ \E i \in 1..Len(body) : is_ascii_digit(body[i])
        /\ Cardinality({i \in 1..Len(body) : body[i] = "."}) <= 1

UpperCase ==
    <<"A", "B", "C", "D", "E", "F", "G", "H", "I", "J", "K", "L", "M",
      "N", "O", "P", "Q", "R", "S", "T", "U", "V", "W", "X", "Y", "Z">>

LowerCase ==
    <<"a", "b", "c", "d", "e", "f", "g", "h", "i", "j", "k", "l", "m",
      "n", "o", "p", "q", "r", "s", "t", "u", "v", "w", "x", "y", "z">>

to_ascii_lowercase_char(c) ==
    IF \E i \in 1..26 : UpperCase[i] = c
    THEN LowerCase[CHOOSE i \in 1..26 : UpperCase[i] = c]
    ELSE c

to_ascii_lowercase(s) == [i \in 1..Len(s) |-> to_ascii_lowercase_char(s[i])]

RECURSIVE trim_start(_)
trim_start(s) == IF s # <<>> /\ Head(s) = " " THEN trim_start(Tail(s)) ELSE s

RECURSIVE trim_end(_)
trim_end(s) ==
    IF s # <<>> /\ s[Len(s)] = " " THEN trim_end(SubSeq(s, 1, Len(s) - 1)) ELSE s

trim(s) == trim_end(trim_start(s))

\* timewarp::date_matcher(today, d, val).map(|d| d.start()), rendered {:#}.
\* The helper is not part of the crate; the table holds the resolutions the
\* crate's tests record (today in 2023): a month resolves to its first day
\* with From and to the first day of the next month with To, an ISO date to
\* itself.  Every other value of the model is taken as rejected.
date_matcher(d, v) ==
    CASE v = <<"J", "a", "n">> -> Ok(IF d = "From" THEN "2023-01-01" ELSE "2023-02-01")
      [] v = <<"F", "e", "b">> -> Ok(IF d = "From" THEN "2023-02-01" ELSE "2023-03-01")
      [] v = <<"D", "e", "z">> -> Ok(IF d = "From" THEN "2023-12-01" ELSE "2024-01-01")
      [] v = <<"2", "0", "2", "2", "-", "1", "2", "-", "2", "4">> -> Ok("2022-12-24")
      [] OTHER -> ParseError("TimeWarpError")

(***************************************************************************)
(* db_field.rs                                                             *)
(***************************************************************************)
VARCHAR(a)      == [tag |-> "VARCHAR", a |-> a]
TEXT            == [tag |-> "TEXT"]
INTEGER(lo, hi) == [tag |-> "INTEGER", min |-> lo, max |-> hi]
NUMERIC(p, s)   == [tag |-> "NUMERIC", len |-> p, scale |-> s]
BOOL            == [tag |-> "BOOL"]
DATE            == [tag |-> "DATE"]
TIMESTAMP       == [tag |-> "TIMESTAMP"]

DbField(db_name, db_type, perm, alias) ==
    [db_name |-> db_name, db_type |-> db_type, permission |-> perm, alias |-> alias]

\* try_bool matching the tokens as they were typed, without to_ascii_lowercase.
try_bool_no_fold(str) ==
    LET s == trim(str)
    IN  IF s \in { <<"1">>, <<"t", "r", "u", "e">>, <<"w", "a", "h", "r">>,
                   <<"y", "e", "s">>, <<"j", "a">>, <<"y">>, <<"j">>, <<"t">>, <<"w">> }
        THEN Ok(TRUE)
        ELSE IF s \in { <<"0">>, <<"f", "a", "l", "s", "e">>,
                        <<"f", "a", "l", "s", "c", "h">>,
                        <<"u", "n", "w", "a", "h", "r">>, <<"n", "o">>,
                        <<"n", "o", "t">>, <<"n", "e", "i", "n">>, <<"n">>, <<"f">> }
        THEN Ok(FALSE)
        ELSE ParseError("No boolean value")

try_bool(str) ==
    LET s == to_ascii_lowercase(trim(str))
    IN  IF s \in { <<"1">>, <<"t", "r", "u", "e">>, <<"w", "a", "h", "r">>,
                   <<"y", "e", "s">>, <<"j", "a">>, <<"y">>, <<"j">>, <<"t">>, <<"w">> }
        THEN Ok(TRUE)
        ELSE IF s \in { <<"0">>, <<"f", "a", "l", "s", "e">>,
                        <<"f", "a", "l", "s", "c", "h">>,
                        <<"u", "n", "w", "a", "h", "r">>, <<"n", "o">>,
                        <<"n", "o", "t">>, <<"n", "e", "i", "n">>, <<"n">>, <<"f">> }
        THEN Ok(FALSE)
        ELSE ParseError("No boolean value")

timestamp_checker(str) ==
    IF \E i \in 1..Len(str) :
          IF str[i] \in {"-", ":", " ", "%"} THEN FALSE ELSE ~is_ascii_digit(str[i])
    THEN ParseError("No date")
    ELSE IF Len(str) = 10
    THEN Ok(str \o <<" ", "0", "0", ":", "0", "0", ":", "0", "0">>)
    ELSE Ok(str)

\* The closure of sql_safe without the escape of the SQL wildcards.
escaper_keeps_wildcards(c) ==
    CASE c = "?"  -> <<"_">>
      [] c = "*"  -> <<"%">>
      [] c = "'"  -> <<"'", "'">>
      [] OTHER    -> <<c>>

\* The closure of sql_safe without the doubling of the quote.
escaper_keeps_quote(c) ==
    CASE c = "?"  -> <<"_">>
      [] c = "*"  -> <<"%">>
      [] c \in {"_", "%"} -> <<"\\", c>>
      [] OTHER    -> <<c>>

escaper(c) ==
    CASE c = "?"  -> <<"_">>
      [] c = "*"  -> <<"%">>
      [] c = "'"  -> <<"'", "'">>
      [] c \in {"_", "%"} -> <<"\\", c>>
      [] OTHER    -> <<c>>

\* checker taking the bounds of INTEGER(min, max) as exclusive.
checker_exclusive_bounds(db_type, v) ==
    CASE db_type.tag = "VARCHAR" ->
            IF Len(v) > db_type.a THEN ParseError("to long") ELSE Ok(v)
      [] db_type.tag = "TEXT" -> Ok(v)
      [] db_type.tag = "TIMESTAMP" -> timestamp_checker(v)
      [] db_type.tag = "INTEGER" ->
            LET c_val == Replace(v, ",", ".")
                d     == u64_from_str(Without(c_val, "%"))
            IN  IF d.ok /\ d.v < db_type.max /\ d.v > db_type.min
                THEN Ok(c_val)
                ELSE ParseError("No Integer value")
      [] db_type.tag = "NUMERIC" ->
            LET c_val  == Replace(v, ",", ".")
                number == Without(c_val, "%")
            IN  IF f64_from_str_ok(number) /\ Len(number) < db_type.len + 1
                THEN Ok(c_val)
                ELSE ParseError("No Numeric value")
      [] OTHER -> ParseError("Don't know how to handle")

checker(db_type, v) ==
    CASE db_type.tag = "VARCHAR" ->
            IF Len(v) > db_type.a THEN ParseError("to long") ELSE Ok(v)
      [] db_type.tag = "TEXT" -> Ok(v)
      [] db_type.tag = "TIMESTAMP" -> timestamp_checker(v)
      [] db_type.tag = "INTEGER" ->
            LET c_val == Replace(v, ",", ".")
                d     == u64_from_str(Without(c_val, "%"))
            IN  IF d.ok /\ d.v <= db_type.max /\ d.v >= db_type.min
                THEN Ok(c_val)
                ELSE ParseError("No Integer value")
      [] db_type.tag = "NUMERIC" ->
            LET c_val  == Replace(v, ",", ".")
                number == Without(c_val, "%")
            IN  IF f64_from_str_ok(number) /\ Len(number) < db_type.len + 1
                THEN Ok(c_val)
                ELSE ParseError("No Numeric value")
      [] OTHER -> ParseError("Don't know how to handle")

sql_safe(db_type, v) ==
    checker(db_type, Flatten([i \in 1..Len(v) |-> escaper(v[i])]))

try_sql_eq(f, eq, v, d) ==
    CASE f.db_type.tag = "BOOL" ->
            LET b == try_bool(v)
            IN  IF ~b.ok THEN b
                ELSE LET not == (b.v = (eq = "Equal"))
                     IN  Ok(<<f.db_name>> \o (IF not THEN <<>> ELSE <<"=false">>))
      [] f.db_type.tag \in {"NUMERIC", "INTEGER"} ->
            LET s == sql_safe(f.db_type, v)
            IN  IF ~s.ok THEN s ELSE Ok(<<f.db_name, CompOp_fmt(eq)>> \o s.v)
      [] f.db_type.tag = "DATE" ->
            LET date == date_matcher(d, v)
            IN  IF ~date.ok THEN date
                ELSE Ok(<<f.db_name, CompOp_fmt(eq), "'", date.v, "'">>)
      [] OTHER ->
            LET s == sql_safe(f.db_type, v)
            IN  IF ~s.ok THEN s
                ELSE Ok(<<f.db_name, CompOp_fmt(eq), "'">> \o s.v \o <<"'">>)

try_sql_like(f, v) ==
    CASE f.db_type.tag \in {"VARCHAR", "TEXT"} ->
            LET s == sql_safe(f.db_type, v)
            IN  IF ~s.ok THEN s
                ELSE Ok(<<f.db_name, " LIKE ", "'">> \o s.v \o <<"'">>)
      [] f.db_type.tag \in {"DATE", "TIMESTAMP"} -> Err("LikeNotPossible", "")
      [] OTHER ->
            LET s == sql_safe(f.db_type, v)
            IN  IF ~s.ok THEN s
                ELSE Ok(<<f.db_name, "::TEXT", " LIKE ", "'">> \o s.v \o <<"'">>)

is_text(f) == f.db_type.tag \in {"TEXT", "VARCHAR"}

SortField_to_sql(sf) == <<sf.field.db_name>> \o (IF sf.desc THEN <<" DESC">> ELSE <<>>)

(***************************************************************************)
(* sql_term.rs                                                             *)
(***************************************************************************)
AND(vec)           == [t |-> "AND", v |-> vec]
OR(vec)            == [t |-> "OR", v |-> vec]
NOT(child)         == [t |-> "NOT", c |-> child]
VALUE(f, eq, d, s) == [t |-> "VALUE", f |-> f, eq |-> eq, d |-> d, s |-> s]
LIKE(f, s)         == [t |-> "LIKE", f |-> f, s |-> s]
DENIED             == [t |-> "DENIED"]

Combinator_to_sql(c) == IF c = "And" THEN <<" AND ">> ELSE <<" OR ">>

val_sql(f, eq, v, d) ==
    IF Contains(v, "*") THEN try_sql_like(f, v) ELSE try_sql_eq(f, eq, v, d)

RECURSIVE to_sql(_)
RECURSIVE explode_sql(_, _)

\* explode_sql collecting into a Result: the first failing child fails the node.
explode_sql_propagates(vec, combinator) ==
    LET rs == [i \in 1..Len(vec) |-> to_sql(vec[i])]
        v  == [i \in 1..Len(vec) |-> unwrap_or_default(rs[i])]
    IN  IF \E i \in 1..Len(vec) : ~rs[i].ok
        THEN rs[CHOOSE i \in 1..Len(vec) : ~rs[i].ok /\ \A j \in 1..(i - 1) : rs[j].ok]
        ELSE CASE Len(v) = 0 -> ParseError("Empty SQLTerm!")
               [] Len(v) = 1 -> Ok(v[1])
               [] OTHER -> Ok(<<"( ">> \o Join(v, Combinator_to_sql(combinator)) \o <<" )">>)

explode_sql(vec, combinator) ==
    LET rs   == [i \in 1..Len(vec) |-> to_sql(vec[i])]
        oks  == SelectSeq(rs, LAMBDA r : r.ok)
        v    == [i \in 1..Len(oks) |-> oks[i].v]
    IN  CASE Len(v) = 0 -> ParseError("Empty SQLTerm!")
          [] Len(v) = 1 -> Ok(v[1])
          [] OTHER -> Ok(<<"( ">> \o Join(v, Combinator_to_sql(combinator)) \o <<" )">>)

\* to_sql without the NOT(NOT(x)) arm.
to_sql_keeps_double_not(x) ==
    CASE x.t = "OR"  -> explode_sql(x.v, "Or")
      [] x.t = "AND" -> explode_sql(x.v, "And")
      [] x.t = "NOT" ->
            LET r == to_sql(x.c)
            IN  IF r.ok THEN Ok(<<"NOT ">> \o r.v) ELSE r
      [] x.t = "VALUE" -> val_sql(x.f, x.eq, x.s, x.d)
      [] x.t = "LIKE"  -> try_sql_like(x.f, x.s)
      [] x.t = "DENIED" -> Err("Denied", "")

to_sql(x) ==
    CASE x.t = "OR"  -> explode_sql(x.v, "Or")
      [] x.t = "AND" -> explode_sql(x.v, "And")
      [] x.t = "NOT" ->
            IF x.c.t = "NOT"
            THEN to_sql(x.c.c)
            ELSE LET r == to_sql(x.c)
                 IN  IF r.ok THEN Ok(<<"NOT ">> \o r.v) ELSE r
      [] x.t = "VALUE" -> val_sql(x.f, x.eq, x.s, x.d)
      [] x.t = "LIKE"  -> try_sql_like(x.f, x.s)
      [] x.t = "DENIED" -> Err("Denied", "")

(***************************************************************************)
(* suchbar.rs: the walker.  A pest Pair is a record                        *)
(* [rule |-> Rule, str |-> as_str(), inner |-> into_inner()].              *)
(***************************************************************************)
None    == [some |-> FALSE]
Some(x) == [some |-> TRUE, v |-> x]

Pair(rule, str, inner) == [rule |-> rule, str |-> str, inner |-> inner]

\* permission.has_perm(token).is_ok()
has_perm(perm, token) == token \in perm

\* choose_field comparing the aliases with the needle as it was typed.
choose_field_case_sensitive(self, needle) ==
    LET hits == SelectSeq(self.db_fields,
                          LAMBDA sf : \E k \in 1..Len(sf.alias) : sf.alias[k] = needle)
    IN  IF hits = <<>> THEN None ELSE Some(hits[1])

choose_field(self, needle) ==
    LET n    == to_ascii_lowercase(needle)
        hits == SelectSeq(self.db_fields,
                          LAMBDA sf : \E k \in 1..Len(sf.alias) : sf.alias[k] = n)
    IN  IF hits = <<>> THEN None ELSE Some(hits[1])

choose_field_vec(self, needle) ==
    LET f == choose_field(self, needle)
    IN  IF f.some THEN <<f.v>> ELSE self.db_fields

parse_value(expr) ==
    IF expr.inner = <<>> THEN None
    ELSE LET exp == expr.inner[1]
         IN  CASE exp.rule = "raw_string" -> Some(exp.str)
               [] exp.rule = "raw_string_interior" -> Some(exp.str)
               [] OTHER -> None

\* The locals of parse_term after its loop over the term's children.
RECURSIVE parse_term_loop(_, _)
parse_term_loop(inner, st) ==
    IF inner = <<>> THEN st
    ELSE LET exp == Head(inner)
             nx  == CASE exp.rule = "starts_with" ->
                            IF exp.str = <<"*">>
                            THEN [st EXCEPT !.like_starting = TRUE]
                            ELSE [st EXCEPT !.like_ending = TRUE]
                      [] exp.rule = "ends_with" ->
                            IF exp.str = <<"*">>
                            THEN [st EXCEPT !.like_ending = TRUE]
                            ELSE [st EXCEPT !.like_starting = TRUE]
                      [] exp.rule = "from_to" ->
                            [st EXCEPT !.to_val = parse_value(exp.inner[1])]
                      [] exp.rule = "value" ->
                            LET v == parse_value(exp)
                            IN  [st EXCEPT !.value = IF v.some THEN v.v ELSE <<>>]
                      [] exp.rule = "date" -> [st EXCEPT !.value = exp.str]
                      [] OTHER -> st
         IN  parse_term_loop(Tail(inner), nx)

\* The closure of parse_term without the permission check.
resolve_unchecked(self, perm, name, comp_op, st, sf) ==
    IF st.like_ending \/ st.like_starting THEN
        LET value == CASE st.like_starting /\ ~st.like_ending -> <<"*">> \o st.value
                       [] ~st.like_starting /\ st.like_ending -> st.value \o <<"*">>
                       [] OTHER -> <<"*">> \o st.value \o <<"*">>
        IN  IF comp_op = "NotEqual" THEN NOT(LIKE(sf, value)) ELSE LIKE(sf, value)
    ELSE IF ~name.some THEN
        IF is_text(sf) \/ self.options.like_in_numerics
        THEN LIKE(sf, <<"*">> \o st.value \o <<"*">>)
        ELSE VALUE(sf, "Equal", "From", st.value)
    ELSE IF st.to_val.some THEN
        AND(<<VALUE(sf, "Gte", "From", st.value), VALUE(sf, "Lt", "To", st.to_val.v)>>)
    ELSE IF comp_op = "NotEqual" THEN
        NOT(VALUE(sf, "Equal", "From", st.value))
    ELSE VALUE(sf, comp_op, "From", st.value)

\* The closure of parse_term resolving both bounds of a range with From.
resolve_range_from(self, perm, name, comp_op, st, sf) ==
    IF ~has_perm(perm, sf.permission) THEN DENIED
    ELSE IF st.like_ending \/ st.like_starting THEN
        LET value == CASE st.like_starting /\ ~st.like_ending -> <<"*">> \o st.value
                       [] ~st.like_starting /\ st.like_ending -> st.value \o <<"*">>
                       [] OTHER -> <<"*">> \o st.value \o <<"*">>
        IN  IF comp_op = "NotEqual" THEN NOT(LIKE(sf, value)) ELSE LIKE(sf, value)
    ELSE IF ~name.some THEN
        IF is_text(sf) \/ self.options.like_in_numerics
        THEN LIKE(sf, <<"*">> \o st.value \o <<"*">>)
        ELSE VALUE(sf, "Equal", "From", st.value)
    ELSE IF st.to_val.some THEN
        AND(<<VALUE(sf, "Gte", "From", st.value), VALUE(sf, "Lt", "From", st.to_val.v)>>)
    ELSE IF comp_op = "NotEqual" THEN
        NOT(VALUE(sf, "Equal", "From", st.value))
    ELSE VALUE(sf, comp_op, "From", st.value)

\* The closure of parse_term sending a bare term to the text fields only.
resolve_text_only(self, perm, name, comp_op, st, sf) ==
    IF ~has_perm(perm, sf.permission) THEN DENIED
    ELSE IF st.like_ending \/ st.like_starting THEN
        LET value == CASE st.like_starting /\ ~st.like_ending -> <<"*">> \o st.value
                       [] ~st.like_starting /\ st.like_ending -> st.value \o <<"*">>
                       [] OTHER -> <<"*">> \o st.value \o <<"*">>
        IN  IF comp_op = "NotEqual" THEN NOT(LIKE(sf, value)) ELSE LIKE(sf, value)
    ELSE IF ~name.some THEN
        IF is_text(sf) \/ self.options.like_in_numerics
        THEN LIKE(sf, <<"*">> \o st.value \o <<"*">>)
        ELSE DENIED
    ELSE IF st.to_val.some THEN
        AND(<<VALUE(sf, "Gte", "From", st.value), VALUE(sf, "Lt", "To", st.to_val.v)>>)
    ELSE IF comp_op = "NotEqual" THEN
        NOT(VALUE(sf, "Equal", "From", st.value))
    ELSE VALUE(sf, comp_op, "From", st.value)

\* The closure of parse_term looking at NotEqual before the range.
resolve_not_before_range(self, perm, name, comp_op, st, sf) ==
    IF ~has_perm(perm, sf.permission) THEN DENIED
    ELSE IF st.like_ending \/ st.like_starting THEN
        LET value == CASE st.like_starting /\ ~st.like_ending -> <<"*">> \o st.value
                       [] ~st.like_starting /\ st.like_ending -> st.value \o <<"*">>
                       [] OTHER -> <<"*">> \o st.value \o <<"*">>
        IN  IF comp_op = "NotEqual" THEN NOT(LIKE(sf, value)) ELSE LIKE(sf, value)
    ELSE IF ~name.some THEN
        IF is_text(sf) \/ self.options.like_in_numerics
        THEN LIKE(sf, <<"*">> \o st.value \o <<"*">>)
        ELSE VALUE(sf, "Equal", "From", st.value)
    ELSE IF comp_op = "NotEqual" THEN
        NOT(VALUE(sf, "Equal", "From", st.value))
    ELSE IF st.to_val.some THEN
        AND(<<VALUE(sf, "Gte", "From", st.value), VALUE(sf, "Lt", "To", st.to_val.v)>>)
    ELSE VALUE(sf, comp_op, "From", st.value)

\* The closure parse_term maps over the chosen fields.
resolve(self, perm, name, comp_op, st, sf) ==
    IF ~has_perm(perm, sf.permission) THEN DENIED
    ELSE IF st.like_ending \/ st.like_starting THEN
        LET value == CASE st.like_starting /\ ~st.like_ending -> <<"*">> \o st.value
                       [] ~st.like_starting /\ st.like_ending -> st.value \o <<"*">>
                       [] OTHER -> <<"*">> \o st.value \o <<"*">>
        IN  IF comp_op = "NotEqual" THEN NOT(LIKE(sf, value)) ELSE LIKE(sf, value)
    ELSE IF ~name.some THEN
        IF is_text(sf) \/ self.options.like_in_numerics
        THEN LIKE(sf, <<"*">> \o st.value \o <<"*">>)
        ELSE VALUE(sf, "Equal", "From", st.value)
    ELSE IF st.to_val.some THEN
        AND(<<VALUE(sf, "Gte", "From", st.value), VALUE(sf, "Lt", "To", st.to_val.v)>>)
    ELSE IF comp_op = "NotEqual" THEN
        NOT(VALUE(sf, "Equal", "From", st.value))
    ELSE VALUE(sf, comp_op, "From", st.value)

parse_term(self, perm, name, comp_op, expr) ==
    LET st == parse_term_loop(expr.inner,
                 [value |-> <<>>, like_ending |-> FALSE, like_starting |-> FALSE,
                  to_val |-> None])
        fs == choose_field_vec(self, IF name.some THEN name.v ELSE <<>>)
    IN  OR([i \in 1..Len(fs) |-> resolve(self, perm, name, comp_op, st, fs[i])])

RECURSIVE parse_field_loop(_, _, _, _)
parse_field_loop(self, perm, inner, st) ==
    IF inner = <<>> THEN ParseError("Field not parsable.")
    ELSE LET exp == Head(inner)
         IN  CASE exp.rule = "eq" ->
                    LET c == CompOp_from_str(exp.str)
                    IN  parse_field_loop(self, perm, Tail(inner),
                            [st EXCEPT !.comp_op = IF c.ok THEN c.v ELSE "Equal"])
               [] exp.rule = "field_name" ->
                    parse_field_loop(self, perm, Tail(inner), [st EXCEPT !.name = exp.str])
               [] exp.rule = "invert" ->
                    parse_field_loop(self, perm, Tail(inner), [st EXCEPT !.not = ~st.not])
               [] exp.rule = "term" ->
                    Ok(parse_term(self, perm, Some(st.name),
                                  IF st.not THEN CompOp_not(st.comp_op) ELSE st.comp_op,
                                  exp))
               [] OTHER -> parse_field_loop(self, perm, Tail(inner), st)

parse_field(self, perm, expr, not) ==
    parse_field_loop(self, perm, expr.inner,
                     [name |-> <<>>, not |-> (not = "NotEqual"), comp_op |-> "Equal"])

RECURSIVE parse_expr(_, _, _)
RECURSIVE parse_expr_loop(_, _, _, _)
parse_expr_loop(self, perm, inner, st) ==
    IF inner = <<>> THEN st
    ELSE LET exp == Head(inner)
             nx  == CASE exp.rule = "field" ->
                            LET f == parse_field(self, perm, exp, st.comp_op)
                            IN  IF f.ok THEN [st EXCEPT !.acc = Append(st.acc, f.v)] ELSE st
                      [] exp.rule = "or"  -> [st EXCEPT !.or = TRUE]
                      [] exp.rule = "and" -> [st EXCEPT !.or = FALSE]
                      [] exp.rule = "invert" -> [st EXCEPT !.comp_op = CompOp_not(st.comp_op)]
                      [] exp.rule = "term" ->
                            [st EXCEPT !.acc =
                                Append(st.acc, parse_term(self, perm, None, st.comp_op, exp))]
                      [] exp.rule = "expr" ->
                            [st EXCEPT !.acc = Append(st.acc, parse_expr(self, perm, exp).v)]
                      [] OTHER -> st
         IN  parse_expr_loop(self, perm, Tail(inner), nx)

\* parse_expr building an OR as soon as any bin_op of the expr is an `or`.
parse_expr_any_or(self, perm, expr) ==
    LET st == parse_expr_loop(self, perm, expr.inner,
                              [acc |-> <<>>, or |-> FALSE, comp_op |-> "Equal"])
    IN  IF \E i \in 1..Len(expr.inner) : expr.inner[i].rule = "or"
        THEN Ok(OR(st.acc)) ELSE Ok(AND(st.acc))

\* parse_expr starting with `or` set.
parse_expr_default_or(self, perm, expr) ==
    LET st == parse_expr_loop(self, perm, expr.inner,
                              [acc |-> <<>>, or |-> TRUE, comp_op |-> "Equal"])
    IN  IF st.or THEN Ok(OR(st.acc)) ELSE Ok(AND(st.acc))

parse_expr(self, perm, expr) ==
    LET st == parse_expr_loop(self, perm, expr.inner,
                              [acc |-> <<>>, or |-> FALSE, comp_op |-> "Equal"])
    IN  IF st.or THEN Ok(OR(st.acc)) ELSE Ok(AND(st.acc))

RECURSIVE parse_sort_loop(_, _, _)
parse_sort_loop(self, inner, st) ==
    IF inner = <<>> THEN st.sort_fields
    ELSE LET so == Head(inner)
             nx == CASE so.rule = "down" -> [st EXCEPT !.desc = TRUE]
                     [] so.rule = "field_name" ->
                            LET f == choose_field(self, so.str)
                            IN  IF f.some
                                THEN [sort_fields |->
                                         Append(st.sort_fields,
                                                [desc |-> st.desc, field |-> f.v]),
                                      desc |-> FALSE]
                                ELSE st
                     [] OTHER -> st
         IN  parse_sort_loop(self, Tail(inner), nx)

parse_sort(self, sort) ==
    parse_sort_loop(self, sort.inner, [sort_fields |-> <<>>, desc |-> FALSE])

\* The WhereClause exec builds from the pairs of a parsed query.
RECURSIVE exec_loop(_, _, _, _)
exec_loop(self, perm, qu, wc) ==
    IF qu = <<>> THEN wc
    ELSE LET expr == Head(qu)
             nx   == CASE expr.rule = "expr" ->
                            [wc EXCEPT !.sql_term = parse_expr(self, perm, expr).v]
                       [] expr.rule = "sort" ->
                            [wc EXCEPT !.sort_field = parse_sort(self, expr)]
                       [] OTHER -> wc
         IN  exec_loop(self, perm, Tail(qu), nx)

exec(self, perm, qu) ==
    Ok(exec_loop(self, perm, qu, [sql_term |-> AND(<<>>), sort_field |-> <<>>]))

(***************************************************************************)
(* suchbar.rs: WhereClause.                                                *)
(***************************************************************************)
where_clause(wc) == to_sql(wc.sql_term)

order_by(wc) ==
    Join([i \in 1..Len(wc.sort_field) |-> SortField_to_sql(wc.sort_field[i])], <<", ">>)

\* to_sql putting the prefix in front of an empty WHERE part as well.
WhereClause_to_sql_always_prefix(wc, concatenate) ==
    LET whr  == <<" ">> \o concatenate \o <<" ">> \o unwrap_or_default(where_clause(wc))
        sort == IF wc.sort_field = <<>> THEN <<>> ELSE <<" ORDER BY ">> \o order_by(wc)
    IN  whr \o sort

WhereClause_to_sql(wc, concatenate) ==
    LET whr0 == unwrap_or_default(where_clause(wc))
        whr  == IF whr0 = <<>> THEN whr0 ELSE <<" ">> \o concatenate \o <<" ">> \o whr0
        sort == IF wc.sort_field = <<>> THEN <<>> ELSE <<" ORDER BY ">> \o order_by(wc)
    IN  whr \o sort

(***************************************************************************)
(* The schema: the fields of the test module of suchbar.rs, and the BOOL   *)
(* field of the test module of db_field.rs.                                *)
(***************************************************************************)
Schema ==
    << DbField("artikelnummer", VARCHAR(18), "READ_OFFER",
               <<<<"a", "r", "t">>, <<"a", "r", "t", "n", "r">>,
                 <<"a", "r", "t", "i", "k", "e", "l", "n", "u", "m", "m", "e", "r">>,
                 <<"a", "r", "t", "i", "k", "e", "l", "n", "r">>, <<"a", "n", "o">>>>),
       DbField("positionstext", TEXT, "READ_OFFER",
               <<<<"b", "e", "s", "c", "h", "r", "e", "i", "b", "u", "n", "g">>,
                 <<"d", "e", "s", "c">>,
                 <<"d", "e", "s", "c", "r", "i", "p", "t", "i", "o", "n">>,
                 <<"p", "t", "e", "x", "t">>>>),
       DbField("price", NUMERIC(12, 2), "READ_OFFER",
               <<<<"p", "r", "e", "i", "s">>, <<"p", "r", "i", "c", "e">>, <<"p">>>>),
       DbField("age", INTEGER(0, 150), "ACCESS_PRIVATE",
               <<<<"a", "l", "t", "e", "r">>, <<"a", "g", "e">>>>),
       DbField("promille", INTEGER(1, 1000), "ACCESS_PRIVATE",
               <<<<"n", "u", "m", "b", "e", "r">>, <<"n", "u", "m", "m", "e", "r">>, <<"p", "r", "o", "m", "i", "l", "l", "e">>>>),
       DbField("changed", DATE, "READ_OFFER",
               <<<<"c", "h", "a", "n", "g", "e", "d">>, <<"c", "h">>>>),
       DbField("aktiv", BOOL, "READ_OFFER",
               <<<<"a", "k", "t">>>>) >>

SUCHBAR(like_in_numerics) ==
    [db_fields |-> Schema, options |-> [like_in_numerics |-> like_in_numerics]]

\* The fields of the test module of db_field.rs, as a second schema.
UnitSchema ==
    << DbField("article", VARCHAR(200), "READ_OFFER",
               <<<<"a", "r", "t", "n", "r">>, <<"a", "r", "t", "i", "k", "e", "l", "n", "r">>>>),
       DbField("aktiv", BOOL, "READ_OFFER", <<<<"a", "k", "t">>>>),
       DbField("end_date", DATE, "READ_OFFER",
               <<<<"e", "n", "d", "d", "a", "t", "e">>, <<"e", "n", "d", "_", "d", "a", "t", "e">>>>),
       DbField("ma_active", VARCHAR(32), "READ_OFFER", <<<<"a", "k", "t">>>>),
       DbField("price", INTEGER(0, 2000), "READ_OFFER_PRICE", <<<<"p", "r", "i", "c", "e">>>>),
       DbField("changed", TIMESTAMP, "READ_OFFER",
               <<<<"c", "h", "a", "n", "g", "e", "d">>, <<"u", "p", "d", "a", "t", "e", "d">>>>) >>

Schemas == { Schema, UnitSchema }

(***************************************************************************)
(* suchbar.rs: explanation, with DbField::aliases, DbField::db_type and    *)
(* DbType::name of db_field.rs.                                            *)
(***************************************************************************)
\* format!("[{}]", self.alias.join(", "))
DbField_aliases(f) == <<"[">> \o Join(f.alias, <<",", " ">>) \o <<"]">>

DbType_name(t) ==
    CASE t.tag \in {"VARCHAR", "TEXT"}      -> <<"T", "E", "X", "T">>
      [] t.tag \in {"INTEGER", "NUMERIC"}   -> <<"N", "U", "M", "B", "E", "R">>
      [] t.tag = "BOOL"                     -> <<"B", "O", "O", "L">>
      [] t.tag \in {"DATE", "TIMESTAMP"}    -> <<"T", "I", "M", "E">>

DbField_db_type(f) == DbType_name(f.db_type)

\* writeln!(&mut buf, "{} {}", field.aliases(), field.db_type())
ExplanationLine(f) == DbField_aliases(f) \o <<" ">> \o DbField_db_type(f) \o <<"\n">>

\* explanation writing a line for every field, permitted or not.
RECURSIVE explanation_all_fields(_, _)
explanation_all_fields(db_fields, perm) ==
    IF db_fields = <<>> THEN <<>>
    ELSE ExplanationLine(Head(db_fields)) \o explanation_all_fields(Tail(db_fields), perm)

RECURSIVE explanation(_, _)
explanation(db_fields, perm) ==
    IF db_fields = <<>> THEN <<>>
    ELSE (IF has_perm(perm, Head(db_fields).permission)
          THEN ExplanationLine(Head(db_fields)) ELSE <<>>)
         \o explanation(Tail(db_fields), perm)

(***************************************************************************)
(* Idle values of the variables a specification does not use.              *)
(***************************************************************************)
NoField == DbField("", TEXT, "", <<>>)

ExecIdle ==
    /\ permission = {}
    /\ options = [like_in_numerics |-> FALSE]
    /\ query = <<>>
    /\ pc = "idle"
    /\ sql_term = [t |-> "AND", v |-> <<>>]
    /\ sort_field = <<>>
    /\ result = [op |-> "none"]

EmitIdle ==
    /\ term = [t |-> "DENIED"]
    /\ wraps = 0
    /\ emitted = [op |-> "none"]

FieldIdle ==
    /\ field = NoField
    /\ cmp = "Equal"
    /\ cmp0 = "Equal"
    /\ negs = 0
    /\ dir = "From"
    /\ val = <<>>
    /\ fres = [op |-> "none"]

(***************************************************************************)
(* The queries of the model, as the parse trees the grammar (suchbar.pest) *)
(* gives the walker:                                                       *)
(*   query = expr? (";" sort)? EOI        expr = atom (bin_op? atom)*      *)
(*   atom  = "(" expr ")" | invert* (field | term)                         *)
(*   field = field_name eq invert? term                                    *)
(*   term  = starts_with? (value | date) from_to? ends_with?               *)
(*   sort  = (down? field_name)+                                           *)
(***************************************************************************)
InvertPair == Pair("invert", <<"!">>, <<>>)
OrPair     == Pair("or", <<"O", "R">>, <<>>)
AndPair    == Pair("and", <<"A", "N", "D">>, <<>>)
EOI        == Pair("EOI", <<>>, <<>>)

DateWords == { <<"F", "e", "b">>, <<"D", "e", "z">> }

\* An unquoted word is a raw_string, a quoted one a raw_string_interior.
ValuePair(v) ==
    IF v \in DateWords THEN Pair("date", v, <<>>)
    ELSE Pair("value", v,
              << Pair(IF Contains(v, "'") \/ Contains(v, "*")
                      THEN "raw_string_interior" ELSE "raw_string", v, <<>>) >>)

FromToPair(v) == Pair("from_to", v, << Pair("value", v, <<Pair("raw_string", v, <<>>)>>) >>)

\* sw and ew are the marker typed ("^", "*", "$") or "" for none; to is an
\* Option of the upper bound of a range.
TermPair(sw, v, to, ew) ==
    Pair("term", <<>>,
         (IF sw = "" THEN <<>> ELSE <<Pair("starts_with", <<sw>>, <<>>)>>)
         \o <<ValuePair(v)>>
         \o (IF to.some THEN <<FromToPair(to.v)>> ELSE <<>>)
         \o (IF ew = "" THEN <<>> ELSE <<Pair("ends_with", <<ew>>, <<>>)>>))

FieldPair(name, eq, inv, t) ==
    Pair("field", <<>>,
         <<Pair("field_name", name, <<>>), Pair("eq", eq, <<>>)>>
         \o (IF inv THEN <<InvertPair>> ELSE <<>>)
         \o <<t>>)

ExprPair(items) == Pair("expr", <<>>, items)

SortPair(items) == Pair("sort", <<>>, items)

Inverts(n) == [i \in 1..n |-> InvertPair]

ValAlphabet == {"0", "1", "*", "'"}

ExecValues == Strs(ValAlphabet, 1, MaxValLen) \cup DateWords

\* Qualifiers: aliases of an INTEGER, a TEXT, a DATE and a BOOL field, an
\* alias in capitals and in mixed case, and a name that is no alias.
N_age   == <<"a", "g", "e">>
N_AGE   == <<"A", "G", "E">>
N_Age   == <<"A", "g", "e">>
N_ptext == <<"p", "t", "e", "x", "t">>
N_ch    == <<"c", "h">>
N_akt   == <<"a", "k", "t">>
N_art   == <<"a", "r", "t">>
N_p     == <<"p">>
N_zzz   == <<"z", "z", "z">>

Names == {N_age, N_AGE, N_ptext, N_ch, N_akt, N_zzz}

EqStrings == {"=", "==", "!=", "=!", ">", "<", ">=", "=>", "<=", "=<"}

One == <<"1">>

Feb == <<"F", "e", "b">>
Dez == <<"D", "e", "z">>

\* One qualified atom with every comparator spelling, NOT in front of it
\* and inside it, on a number and on a date word; and with every value.
ComparatorAtoms ==
    { Inverts(n) \o <<FieldPair(name, eq, inv, TermPair("", v, None, ""))>> :
        n \in 0..MaxInv, name \in Names, eq \in EqStrings, inv \in BOOLEAN,
        v \in {One, Feb} }
    \cup
    { <<FieldPair(name, eq, FALSE, TermPair("", v, None, ""))>> :
        name \in Names \cup {N_Age}, eq \in {"=", "!=", ">"}, v \in ExecValues }

\* One atom with anchor markers, bare or qualified, also on a range.
AnchoredAtoms ==
    { Inverts(n) \o <<FieldPair(name, eq, FALSE, TermPair(m[1], v, to, m[2]))>> :
        n \in 0..MaxInv, name \in {N_ptext, N_age, N_ch}, eq \in {"=", "!=", ">"},
        m \in ({"", "^", "*"} \X {"", "$", "*"}) \ {<<"", "">>},
        v \in Strs(ValAlphabet, 1, 1), to \in {None, Some(One)} }
    \cup
    { Inverts(n) \o <<TermPair(m[1], v, to, m[2])>> :
        n \in 0..1,
        m \in ({"", "^", "*"} \X {"", "$", "*"}) \ {<<"", "">>},
        v \in Strs(ValAlphabet, 1, 1), to \in {None, Some(One)} }

\* One qualified range: plain with every pair of bounds, and with NOT in
\* front of it or != on a pair of numbers and a pair of date words.
RangeAtoms ==
    { <<FieldPair(name, "=", FALSE, TermPair("", v, Some(to), ""))>> :
        name \in Names, v \in ExecValues, to \in ExecValues }
    \cup
    { Inverts(n) \o <<FieldPair(name, eq, FALSE, TermPair("", b[1], Some(b[2]), ""))>> :
        n \in 0..MaxInv, name \in Names, eq \in {"=", "!="},
        b \in {<<<<"0">>, One>>, <<Feb, Dez>>} }

\* A word one character too long for '%word%' to fit VARCHAR(18).
LongWord == [i \in 1..17 |-> "1"]

\* One bare term.
BareAtoms ==
    { Inverts(n) \o <<TermPair("", v, to, "")>> :
        n \in 0..MaxInv, v \in ExecValues, to \in {None, Some(One)} }
    \cup { <<TermPair("", LongWord, None, "")>> }

\* Words handed to a BOOL field: the tokens of try_bool, tokens in capitals
\* and with blanks around them, and words that are no token.
BoolWords ==
    { <<"1">>, <<"t", "r", "u", "e">>, <<"w", "a", "h", "r">>, <<"y", "e", "s">>,
      <<"j", "a">>, <<"y">>, <<"j">>, <<"t">>, <<"w">>,
      <<"0">>, <<"f", "a", "l", "s", "e">>, <<"f", "a", "l", "s", "c", "h">>,
      <<"u", "n", "w", "a", "h", "r">>, <<"n", "o">>, <<"n", "o", "t">>,
      <<"n", "e", "i", "n">>, <<"n">>, <<"f">>,
      <<"T", "R", "U", "E">>, <<"J", "a">>, <<"N", "e", "i", "n">>,
      <<" ", "t">>, <<"n", "o", " ">>,
      <<"2">>, <<"t", "r", "u">>, <<"o", "n">>, <<"n", " ", "o">> }

\* One comparison of the BOOL field with each of these words.
BoolAtoms ==
    { <<FieldPair(N_akt, eq, FALSE, TermPair("", w, None, ""))>> :
        eq \in {"=", "==", "!=", ">"}, w \in BoolWords }

\* The atoms that exprs of several atoms are made of.
SimpleAtoms ==
    { <<FieldPair(N_age, "=", FALSE, TermPair("", One, None, ""))>>,
      <<InvertPair, FieldPair(N_ptext, "=", FALSE, TermPair("", One, None, ""))>>,
      <<TermPair("", One, None, "")>> }

BinOps == { <<>>, <<AndPair>>, <<OrPair>> }

RECURSIVE AtomLists(_)
AtomLists(n) ==
    IF n = 1 THEN SimpleAtoms
    ELSE { l \o b \o a : l \in AtomLists(n - 1), b \in BinOps, a \in SimpleAtoms }

\* ( a op b ) next to a simple atom, on either side.
NestedLists ==
    { <<ExprPair(in)>> \o b \o a : in \in AtomLists(2), b \in BinOps, a \in SimpleAtoms }
    \cup
    { a \o b \o <<ExprPair(in)>> : in \in AtomLists(2), b \in BinOps, a \in SimpleAtoms }

\* Bare words one after the other, no bin_op between them.
Zero == <<"0">>

RECURSIVE BareLists(_)
BareLists(n) ==
    LET word == { <<TermPair("", w, None, "")>> : w \in {Zero, One} }
    IN  IF n = 1 THEN word ELSE { l \o w : l \in BareLists(n - 1), w \in word }

RECURSIVE SortLists(_)
SortLists(n) ==
    LET item == { d \o <<Pair("field_name", name, <<>>)>> :
                    d \in {<<>>, <<Pair("down", <<"^">>, <<>>)>>},
                    name \in {N_age, N_art, N_p, N_zzz} }
    IN  IF n = 1 THEN item ELSE { l \o i : l \in SortLists(n - 1), i \in item }

SingleAtomQueries ==
    { <<ExprPair(a), EOI>> :
        a \in ComparatorAtoms \cup AnchoredAtoms \cup RangeAtoms \cup BareAtoms
              \cup BoolAtoms }

BareQueries == { <<ExprPair(a), EOI>> : a \in BareAtoms }

BareListQueries ==
    { <<ExprPair(l), EOI>> : l \in UNION { BareLists(n) : n \in 2..MaxAtoms } }

MultiAtomQueries ==
    { <<ExprPair(l), EOI>> :
        l \in NestedLists \cup UNION { AtomLists(n) : n \in 2..MaxAtoms } }
    \cup BareListQueries

SortQueries ==
    { e \o <<SortPair(l), EOI>> :
        e \in {<<>>, <<ExprPair(<<FieldPair(N_ptext, "=", FALSE, TermPair("", One, None, ""))>>)>>},
        l \in UNION { SortLists(n) : n \in 1..MaxSort } }

Queries == {<<EOI>>} \cup SingleAtomQueries \cup MultiAtomQueries \cup SortQueries

\* The permission objects: the tokens has_perm accepts.  The test module has
\* ADMIN (both tokens of the schema) and USER (READ_OFFER only).
Permissions == SUBSET {"READ_OFFER", "ACCESS_PRIVATE"}

Prefixes == { <<"WHERE">>, <<>> }

(***************************************************************************)
(* Spec: exec on a parsed query, then the calls on the WhereClause; and    *)
(* to_sql on SQLTerm trees built by hand.                                  *)
(***************************************************************************)
InitExec ==
    /\ EmitIdle
    /\ FieldIdle
    /\ query \in Queries
    /\ permission \in Permissions
    /\ options \in { [like_in_numerics |-> b] :
                       b \in (IF query \in BareQueries \cup BareListQueries
                             THEN BOOLEAN ELSE {FALSE}) }
    /\ pc = "start"
    /\ sql_term = AND(<<>>)
    /\ sort_field = <<>>
    /\ result = [op |-> "none"]

WhereClause == [sql_term |-> sql_term, sort_field |-> sort_field]

\* SUCHBAR.exec(&permission, query)
Exec ==
    /\ pc = "start"
    /\ LET r == exec(SUCHBAR(options.like_in_numerics), permission, query)
       IN  /\ sql_term' = r.v.sql_term
           /\ sort_field' = r.v.sort_field
    /\ pc' = "done"
    /\ UNCHANGED <<permission, options, query, result>>
    /\ UNCHANGED <<emitVars, fieldVars>>

\* s.where_clause()
CallWhereClause ==
    /\ pc = "done"
    /\ result' = [op |-> "where_clause", r |-> where_clause(WhereClause)]
    /\ UNCHANGED <<permission, options, query, pc, sql_term, sort_field>>
    /\ UNCHANGED <<emitVars, fieldVars>>

\* s.order_by()
CallOrderBy ==
    /\ pc = "done"
    /\ result' = [op |-> "order_by", r |-> order_by(WhereClause)]
    /\ UNCHANGED <<permission, options, query, pc, sql_term, sort_field>>
    /\ UNCHANGED <<emitVars, fieldVars>>

\* s.to_sql(prefix)
CallToSql ==
    /\ pc = "done"
    /\ \E prefix \in Prefixes :
          result' = [op |-> "to_sql", prefix |-> prefix,
                     r |-> WhereClause_to_sql(WhereClause, prefix)]
    /\ UNCHANGED <<permission, options, query, pc, sql_term, sort_field>>
    /\ UNCHANGED <<emitVars, fieldVars>>

(***************************************************************************)
(* Hand-built trees: leaves over typed fields that emit or fail in each of *)
(* the ways to_sql can fail, AND / OR nodes over them, NOT around them.    *)
(***************************************************************************)
F_text == Schema[2]
F_int  == Schema[4]
F_date == Schema[6]

Leaves ==
    { VALUE(F_int, "Equal", "From", <<"1">>),        \* age=1
      VALUE(F_text, "Gt", "From", <<"a">>),          \* positionstext>'a'
      LIKE(F_text, <<"a", "*">>),                    \* positionstext LIKE 'a%'
      VALUE(F_int, "Equal", "From", <<"a">>),        \* ParseError
      LIKE(F_date, <<"1">>),                         \* LikeNotPossible
      DENIED }

\* VALUE leaves on the BOOL field, with every comparator.
F_bool == Schema[7]

BoolLeaves == { VALUE(F_bool, c, "From", w) : c \in CompOp, w \in BoolWords }

\* VALUE and LIKE leaves on the INTEGER fields: values at and next to the
\* bounds, with a decimal part, with wildcards, signs and other characters.
F_promille == Schema[5]

IntWords ==
    { <<>>,
      <<"0">>,
      <<"1">>,
      <<"1", "5", "0">>,
      <<"1", "5", "1">>,
      <<"1", "0", "0", "0">>,
      <<"1", "0", "0", "1">>,
      <<"1", "0", "0", "0", ".", "0">>,
      <<"1", ",", "0">>,
      <<"1", ".", "0">>,
      <<"1", ",">>,
      <<"1", "%">>,
      <<"1", "*">>,
      <<"*">>,
      <<"a">>,
      <<"-", "1">>,
      <<"+", "1">>,
      <<" ", "1">>,
      <<"1", "_">>,
      <<"1", "?">> }

IntLeaves ==
    { VALUE(f, c, "From", w) : f \in {F_int, F_promille}, c \in {"Equal", "Gt"}, w \in IntWords }
    \cup { LIKE(f, w) : f \in {F_int, F_promille}, w \in IntWords }

Kids ==
    Leaves \cup
    { OR(<<>>),
      AND(<<DENIED>>),
      NOT(VALUE(F_int, "Lt", "From", <<"1">>)),
      OR(<<VALUE(F_int, "Equal", "From", <<"1">>), LIKE(F_text, <<"a">>)>>) }

Nodes == { [t |-> c, v |-> v] : c \in {"AND", "OR"}, v \in Strs(Kids, 0, MaxKids) }

InitEmit ==
    /\ ExecIdle
    /\ FieldIdle
    /\ term \in Leaves \cup Nodes \cup BoolLeaves \cup IntLeaves
    /\ wraps = 0
    /\ emitted = [op |-> "none"]

\* term.to_sql()
Emit ==
    /\ pc = "idle"
    /\ emitted' = [op |-> "to_sql", r |-> to_sql(term)]
    /\ UNCHANGED <<term, wraps>>
    /\ UNCHANGED <<execVars, fieldVars>>

\* NOT(Box::new(term))
WrapNot ==
    /\ pc = "idle"
    /\ wraps < MaxNot
    /\ term' = NOT(term)
    /\ wraps' = wraps + 1
    /\ emitted' = [op |-> "none"]
    /\ UNCHANGED <<execVars, fieldVars>>

(***************************************************************************)
(* explanation: a call on the Suchbar alone, with the caller's permission. *)
(***************************************************************************)
InitExplain ==
    /\ EmitIdle
    /\ FieldIdle
    /\ permission \in Permissions
    /\ options = [like_in_numerics |-> FALSE]
    /\ query = <<>>
    /\ pc = "explain"
    /\ sql_term = AND(<<>>)
    /\ sort_field = <<>>
    /\ result = [op |-> "none"]

\* suchbar.explanation(&permission)
CallExplanation ==
    /\ pc = "explain"
    /\ \E fs \in Schemas :
          result' = [op |-> "explanation", db_fields |-> fs,
                     r |-> explanation(fs, permission)]
    /\ UNCHANGED <<permission, options, query, pc, sql_term, sort_field>>
    /\ UNCHANGED <<emitVars, fieldVars>>

Init == InitExec \/ InitEmit \/ InitExplain

Next ==
    Exec \/ CallWhereClause \/ CallOrderBy \/ CallToSql \/ CallExplanation \/ Emit \/ WrapNot

Spec == Init /\ [][Next]_vars

(***************************************************************************)
(* SpecField: one DbField and one comparator, and the operations on them.  *)
(* The fields are those of the test module of db_field.rs, one per type,   *)
(* with limits that values of the model's length can exceed.               *)
(***************************************************************************)
UnitAlphabet == {"0", "1", "a", "'", "*", "?", "%", "_", ","}

\* Values the crate's tests use that are longer than MaxLen.
TestValues ==
    { <<"2", "0", "2", "2", "-", "0", "9", "-", "0", "1">>,
      <<"M", "i", "c", "h", "a", "'", "s", " ", "c", "a", "t", "*">>,
      <<"F", "e", "b">>,
      <<"3", "5", ",", "1", "2">>,
      <<" ", "T">> }

UnitValues == Strs(UnitAlphabet, 0, MaxLen) \cup TestValues

UnitFields ==
    { DbField("article", VARCHAR(2), "READ_OFFER", <<"artnr", "artikelnr">>),
      DbField("ptext", TEXT, "READ_OFFER", <<"ptext">>),
      DbField("aktiv", BOOL, "READ_OFFER", <<"akt">>),
      DbField("end_date", DATE, "READ_OFFER", <<"enddate", "end_date">>),
      DbField("price", INTEGER(1, 10), "READ_OFFER_PRICE", <<"price">>),
      DbField("amount", NUMERIC(2, 1), "READ_OFFER_PRICE", <<"amount">>),
      DbField("changed", TIMESTAMP, "READ_OFFER", <<"changed", "updated">>) }

InitField ==
    /\ ExecIdle
    /\ EmitIdle
    /\ val \in UnitValues
    /\ field \in UnitFields
    /\ cmp0 \in CompOp
    /\ cmp = cmp0
    /\ negs = 0
    /\ dir \in (IF field.db_type.tag = "DATE" THEN {"From", "To"} ELSE {"From"})
    /\ fres = [op |-> "none"]

\* field.try_sql_eq(cmp, val, dir)
TrySqlEq ==
    /\ fres' = [op |-> "try_sql_eq", r |-> try_sql_eq(field, cmp, val, dir)]
    /\ UNCHANGED <<field, cmp, cmp0, negs, dir, val>>
    /\ UNCHANGED <<execVars, emitVars>>

\* field.try_sql_like(val)
TrySqlLike ==
    /\ fres' = [op |-> "try_sql_like", r |-> try_sql_like(field, val)]
    /\ UNCHANGED <<field, cmp, cmp0, negs, dir, val>>
    /\ UNCHANGED <<execVars, emitVars>>

\* field.db_type.sql_safe(val)
SqlSafe ==
    /\ fres' = [op |-> "sql_safe", r |-> sql_safe(field.db_type, val)]
    /\ UNCHANGED <<field, cmp, cmp0, negs, dir, val>>
    /\ UNCHANGED <<execVars, emitVars>>

\* cmp = !cmp
Negate ==
    /\ negs < MaxNeg
    /\ cmp' = CompOp_not(cmp)
    /\ negs' = negs + 1
    /\ fres' = [op |-> "not", r |-> Ok(cmp')]
    /\ UNCHANGED <<field, cmp0, dir, val>>
    /\ UNCHANGED <<execVars, emitVars>>

NextField == TrySqlEq \/ TrySqlLike \/ SqlSafe \/ Negate

SpecField == InitField /\ [][NextField]_vars

(***************************************************************************)
(* Properties of the field operations and of the comparator (SpecField).   *)
(***************************************************************************)
QuoteCount(s) == Cardinality({i \in 1..Len(s) : s[i] = "'"})

QuoteAt(s) == {i \in 1..Len(s) : s[i] = "'"}

\* The text between the first and the last quote of an emitted predicate.
LiteralBody(s) ==
    LET first == CHOOSE i \in QuoteAt(s) : \A j \in QuoteAt(s) : i <= j
        last  == CHOOSE i \in QuoteAt(s) : \A j \in QuoteAt(s) : j <= i
    IN  SubSeq(s, first + 1, last - 1)

RECURSIVE QuotesPaired(_)
QuotesPaired(s) ==
    \/ s = <<>>
    \/ Head(s) # "'" /\ QuotesPaired(Tail(s))
    \/ Len(s) >= 2 /\ s[1] = "'" /\ s[2] = "'" /\ QuotesPaired(Tail(Tail(s)))

\* C3: in every predicate try_sql_eq or try_sql_like emits, the text between
\* the opening and the closing quote of the literal holds quotes only in
\* doubled pairs, two for each quote of the value; a predicate without a
\* literal holds no quote at all.
C3_LiteralQuotesDoubled ==
    (fres.op \in {"try_sql_eq", "try_sql_like"} /\ fres.r.ok) =>
        LET out == fres.r.v
        IN  IF QuoteAt(out) = {}
            THEN QuoteCount(val) = 0
            ELSE /\ Cardinality(QuoteAt(out)) >= 2
                 /\ QuotesPaired(LiteralBody(out))
                 /\ QuoteCount(LiteralBody(out)) = 2 * QuoteCount(val)

\* A value with a quote was emitted inside a literal.
C3_Witness ==
    /\ fres.op = "try_sql_like"
    /\ fres.r.ok
    /\ QuoteCount(val) = 1
    /\ Contains(val, "*")

\* The substitution the claim C4 states, one character at a time.
GlobSubst(c) ==
    CASE c = "%" -> <<"\\", "%">>
      [] c = "_" -> <<"\\", "_">>
      [] c = "*" -> <<"%">>
      [] c = "?" -> <<"_">>
      [] c = "'" -> <<"'", "'">>
      [] OTHER   -> <<c>>

GlobSubstAll(v) == Flatten([i \in 1..Len(v) |-> GlobSubst(v[i])])

\* C4 as stated: whenever sql_safe succeeds, its output is the value with each
\* character substituted on its own (% and _ escaped, * and ? translated, the
\* quote doubled) and every other character unchanged, in the same order.
C4_Original_PureSubstitution ==
    (fres.op = "sql_safe" /\ fres.r.ok) => fres.r.v = GlobSubstAll(val)

\* C4 amended: the same, except that the type check that ends sql_safe turns
\* each "," into "." for a NUMERIC field and appends " 00:00:00" to a
\* TIMESTAMP value of length 10.
C4_SubstitutionThenTypeCheck ==
    (fres.op = "sql_safe" /\ fres.r.ok) =>
        LET base == GlobSubstAll(val)
        IN  fres.r.v =
              CASE field.db_type.tag = "NUMERIC" -> Replace(base, ",", ".")
                [] field.db_type.tag = "TIMESTAMP" /\ Len(base) = 10 ->
                      base \o <<" ", "0", "0", ":", "0", "0", ":", "0", "0">>
                [] OTHER -> base

\* sql_safe succeeded on a value holding a typed SQL wildcard and a glob.
C4_Witness ==
    /\ fres.op = "sql_safe"
    /\ fres.r.ok
    /\ Contains(val, "%")
    /\ Contains(val, "*")

Complement ==
    [c \in CompOp |->
        CASE c = "Equal" -> "NotEqual" [] c = "NotEqual" -> "Equal"
          [] c = "Gt" -> "Lte" [] c = "Lte" -> "Gt"
          [] c = "Gte" -> "Lt" [] c = "Lt" -> "Gte"]

\* C8: negation maps each comparator to its complement (Equal/NotEqual,
\* Gt/Lte, Gte/Lt), never to itself, and two negations give the comparator
\* back.
C8_NegationInvolution ==
    (fres.op = "not") =>
        /\ (negs = 1 => cmp = Complement[cmp0] /\ cmp # cmp0)
        /\ (negs = 2 => cmp = cmp0)
        /\ fres.r = Ok(cmp)

\* A comparator other than Equal/NotEqual was negated twice.
C8_Witness == fres.op = "not" /\ negs = 2 /\ cmp0 = "Gte" /\ cmp = "Gte"

(***************************************************************************)
(* Properties of exec, the WhereClause and the emitter (Spec).             *)
(***************************************************************************)
RECURSIVE SubTerms(_)
SubTerms(x) ==
    {x} \cup
    CASE x.t \in {"AND", "OR"} -> UNION { SubTerms(x.v[i]) : i \in 1..Len(x.v) }
      [] x.t = "NOT" -> SubTerms(x.c)
      [] OTHER -> {}

DeniedFields == { i \in 1..Len(Schema) : ~has_perm(permission, Schema[i].permission) }

DeniedNames == { Schema[i].db_name : i \in DeniedFields }

\* C1: after exec no VALUE or LIKE leaf of the tree is on a field the caller
\* lacks the permission for, and the WHERE fragment where_clause() returns
\* names no such column.
C1_NoDeniedColumnInWhere ==
    (pc = "done") =>
        /\ \A x \in SubTerms(sql_term) :
              x.t \in {"VALUE", "LIKE"} => has_perm(permission, x.f.permission)
        /\ (result.op = "where_clause" /\ result.r.ok) =>
              \A i \in 1..Len(result.r.v) : result.r.v[i] \notin DeniedNames

\* A fan-out met denied fields and still emitted the permitted ones.
C1_Witness ==
    /\ result.op = "where_clause"
    /\ result.r.ok
    /\ DeniedFields # {}
    /\ DENIED \in SubTerms(sql_term)
    /\ \E x \in SubTerms(sql_term) : x.t = "NOT"

\* C2: the output of to_sql(prefix), ORDER BY part included, names no column
\* the caller lacks the permission for.
C2_NoDeniedColumnInToSql ==
    (result.op = "to_sql") =>
        \A i \in 1..Len(result.r) : result.r[i] \notin DeniedNames

\* What the claim C5 states of a node, from the results of its children.
Survivors(vec) ==
    SelectSeq([i \in 1..Len(vec) |-> to_sql(vec[i])], LAMBDA r : r.ok)

NodeExpected(x) ==
    LET s   == Survivors(x.v)
        sep == IF x.t = "AND" THEN " AND " ELSE " OR "
    IN  IF Len(s) = 0 THEN ParseError("Empty SQLTerm!")
        ELSE IF Len(s) = 1 THEN s[1]
        ELSE Ok(<<"( ">>
                \o Flatten([i \in 1..Len(s) |-> IF i = 1 THEN s[i].v ELSE <<sep>> \o s[i].v])
                \o <<" )">>)

\* C5: an AND / OR node emits its surviving children in order, one survivor
\* as it is, several as ( c1 SEP c2 ... ), and fails, with
\* ParseError("Empty SQLTerm!"), only when no child survives.
C5_CombinatorSwallowsChildErrors ==
    /\ (emitted.op = "to_sql" /\ wraps = 0 /\ term.t \in {"AND", "OR"}) =>
          /\ emitted.r = NodeExpected(term)
          /\ \A x \in SubTerms(term) :
                x.t \in {"AND", "OR"} => to_sql(x) = NodeExpected(x)
    /\ (result.op = "where_clause") =>
          /\ result.r = NodeExpected(sql_term)
          /\ \A x \in SubTerms(sql_term) :
                x.t \in {"AND", "OR"} => to_sql(x) = NodeExpected(x)

\* One child survived next to a DENIED and a LikeNotPossible sibling.
C5_Witness ==
    /\ emitted.op = "to_sql"
    /\ wraps = 0
    /\ term.t = "AND"
    /\ Len(term.v) = 3
    /\ term.v[1] = DENIED
    /\ term.v[2] = LIKE(F_date, <<"1">>)
    /\ to_sql(term.v[3]).ok
    /\ emitted.r = to_sql(term.v[3])

\* C6: to_sql(prefix) is " {prefix} {where}" when where_clause() is Ok and
\* not empty and nothing otherwise, followed by " ORDER BY {order_by}"
\* exactly when the sort list is not empty; empty for an empty root without
\* sort.
C6_ToSqlComposition ==
    (result.op = "to_sql") =>
        LET w    == where_clause(WhereClause)
            whr  == IF w.ok /\ w.v # <<>>
                    THEN <<" ">> \o result.prefix \o <<" ">> \o w.v
                    ELSE <<>>
            sort == IF sort_field # <<>>
                    THEN <<" ORDER BY ">> \o order_by(WhereClause)
                    ELSE <<>>
        IN  /\ result.r = whr \o sort
            /\ (sql_term = AND(<<>>) /\ sort_field = <<>>) => result.r = <<>>
            /\ (sort_field = <<>> /\ ~w.ok) => result.r = <<>>

\* The WHERE part failed, the prefix was left out and the sort was emitted.
C6_Witness ==
    /\ result.op = "to_sql"
    /\ result.prefix = <<"WHERE">>
    /\ ~where_clause(WhereClause).ok
    /\ sql_term # AND(<<>>)
    /\ sort_field # <<>>
    /\ result.r[1] = " ORDER BY "

\* The atom of a query made of one atom, and the NOTs in front of it.
IsSingleAtom(q) ==
    /\ Len(q) = 2
    /\ q[1].rule = "expr"
    /\ q[1].inner # <<>>
    /\ \A i \in 1..(Len(q[1].inner) - 1) : q[1].inner[i].rule = "invert"
    /\ q[1].inner[Len(q[1].inner)].rule \in {"field", "term"}

AtomOf(q) == q[1].inner[Len(q[1].inner)]

InvertsOf(q) == Len(q[1].inner) - 1

SqlOf(q) == where_clause(exec(SUCHBAR(options.like_in_numerics), permission, q).v)

RECURSIVE Unwrapped(_, _)
Unwrapped(x, n) == IF n = 0 THEN x ELSE Unwrapped(x.c, n - 1)

\* C7: the SQL of !!x is the SQL of x for a qualified atom x, the SQL of
\* NOT f != v is the SQL of f = v, and n NOT nodes around a term t emit
\* emit(t) for even n and "NOT " emit(t) for odd n.
C7_DoubleNegationCancels ==
    /\ (result.op = "where_clause" /\ IsSingleAtom(query) /\ AtomOf(query).rule = "field") =>
          /\ (InvertsOf(query) = 2) =>
                result.r = SqlOf(<<ExprPair(<<AtomOf(query)>>), EOI>>)
          /\ (/\ InvertsOf(query) = 1
              /\ Len(AtomOf(query).inner) = 3
              /\ AtomOf(query).inner[2].str \in {"!=", "=!"}) =>
                result.r = SqlOf(<<ExprPair(<<[AtomOf(query) EXCEPT !.inner[2].str = "="]>>), EOI>>)
    /\ (emitted.op = "to_sql") =>
          LET r0 == to_sql(Unwrapped(term, wraps))
          IN  IF ~r0.ok THEN ~emitted.r.ok
              ELSE IF wraps % 2 = 0 THEN emitted.r = r0
              ELSE emitted.r = Ok(<<"NOT ">> \o r0.v)

\* !!x was emitted for an x with an ordering comparator.
C7_Witness ==
    /\ result.op = "where_clause"
    /\ result.r.ok
    /\ IsSingleAtom(query)
    /\ InvertsOf(query) = 2
    /\ AtomOf(query).rule = "field"
    /\ AtomOf(query).inner[2].str = ">="
    /\ result.r.v[2] = ">="

\* A qualified range f=a-b without NOT or anchors, on an alias the caller
\* may read.
IsPlainRange(q) ==
    /\ IsSingleAtom(q)
    /\ InvertsOf(q) = 0
    /\ AtomOf(q).rule = "field"
    /\ Len(AtomOf(q).inner) = 3
    /\ AtomOf(q).inner[2].str = "="
    /\ Len(AtomOf(q).inner[3].inner) = 2
    /\ AtomOf(q).inner[3].inner[2].rule = "from_to"

RangeName(q) == AtomOf(q).inner[1].str
RangeFrom(q) == AtomOf(q).inner[3].inner[1].str
RangeTo(q)   == AtomOf(q).inner[3].inner[2].str

AliasHits(name) ==
    LET n == to_ascii_lowercase(name)
    IN  { i \in 1..Len(Schema) : n \in { Schema[i].alias[k] : k \in 1..Len(Schema[i].alias) } }

FieldNamed(name) ==
    LET h == AliasHits(name) IN CHOOSE i \in h : \A j \in h : i <= j

IsAlias(name) == AliasHits(name) # {}

\* The value as the field's type writes it: a number bare, a date resolved
\* with the direction and quoted, text escaped and quoted.
Coerced(f, v, d) ==
    CASE f.db_type.tag \in {"INTEGER", "NUMERIC"} -> sql_safe(f.db_type, v)
      [] f.db_type.tag = "DATE" ->
            LET r == date_matcher(d, v) IN IF r.ok THEN Ok(<<"'", r.v, "'">>) ELSE r
      [] f.db_type.tag = "BOOL" -> try_bool(v)
      [] OTHER ->
            LET r == sql_safe(f.db_type, v)
            IN  IF r.ok THEN Ok(<<"'">> \o r.v \o <<"'">>) ELSE r

RangeExpected(f, a, b) ==
    Ok(<<"( ", f.db_name, ">=">> \o unwrap_or_default(Coerced(f, a, "From"))
       \o <<" AND ", f.db_name, "<">> \o unwrap_or_default(Coerced(f, b, "To"))
       \o <<" )">>)

IsBareWord(q) ==
    /\ IsSingleAtom(q)
    /\ InvertsOf(q) = 0
    /\ AtomOf(q).rule = "term"
    /\ Len(AtomOf(q).inner) = 1

WordOf(q) == AtomOf(q).inner[1].str

Permitted == SelectSeq(Schema, LAMBDA f : has_perm(permission, f.permission))

Combined(rs) ==
    LET s == SelectSeq(rs, LAMBDA r : r.ok)
    IN  IF Len(s) = 0 THEN ParseError("Empty SQLTerm!")
        ELSE IF Len(s) = 1 THEN s[1]
        ELSE Ok(<<"( ">>
                \o Flatten([i \in 1..Len(s) |-> IF i = 1 THEN s[i].v ELSE <<" OR ">> \o s[i].v])
                \o <<" )">>)

Pattern(w) == <<"'", "%">> \o GlobSubstAll(w) \o <<"%", "'">>

DbNames == { Schema[i].db_name : i \in 1..Len(Schema) }

FieldOfColumn(n) == Schema[CHOOSE i \in 1..Len(Schema) : Schema[i].db_name = n]

IsQualifiedAtom(q) == IsSingleAtom(q) /\ AtomOf(q).rule = "field"

QualifierOf(q) == AtomOf(q).inner[1].str

WithQualifier(q, name) ==
    [q EXCEPT ![1].inner[Len(q[1].inner)].inner[1].str = name]

ColumnsOf(x) ==
    { y.f.db_name : y \in { z \in SubTerms(x) : z.t \in {"VALUE", "LIKE"} } }

\* C11: a qualifier that is an alias in any spelling of upper and lower case
\* selects that one field (the tree is the tree of the lower-case spelling,
\* one child, no OR in the SQL); a qualifier that is no alias selects the
\* whole schema in declaration order.
C11_FieldSetSelection ==
    (pc = "done" /\ IsQualifiedAtom(query)) =>
        LET name == QualifierOf(query)
            sel  == sql_term.v[1].v
            hits == AliasHits(name)
            f    == CHOOSE i \in hits : \A j \in hits : i <= j
        IN  /\ sql_term.t = "AND"
            /\ Len(sql_term.v) = 1
            /\ sql_term.v[1].t = "OR"
            /\ IF hits # {}
               THEN /\ Len(sel) = 1
                    /\ ColumnsOf(sel[1]) \subseteq {Schema[f].db_name}
                    /\ (sel[1] = DENIED) <=> (f \in DeniedFields)
                    /\ sql_term
                         = exec(SUCHBAR(options.like_in_numerics), permission,
                                WithQualifier(query, to_ascii_lowercase(name))).v.sql_term
                    /\ (result.op = "where_clause" /\ result.r.ok) =>
                          \A k \in 1..Len(result.r.v) : result.r.v[k] # " OR "
               ELSE /\ Len(sel) = Len(Schema)
                    /\ \A i \in 1..Len(Schema) :
                          IF i \in DeniedFields THEN sel[i] = DENIED
                          ELSE ColumnsOf(sel[i]) = {Schema[i].db_name}

\* AGE=1 was emitted as the one predicate on age.
C11_Witness ==
    /\ result.op = "where_clause"
    /\ IsQualifiedAtom(query)
    /\ QualifierOf(query) = N_AGE
    /\ result.r = Ok(<<"age", "=", "1">>)

\* The items of a sort clause as they were written: the name and whether the
\* item carries the "^" prefix.
HasSort(q) == Len(q) >= 2 /\ q[Len(q) - 1].rule = "sort"

RECURSIVE SortItems(_)
SortItems(inner) ==
    IF inner = <<>> THEN <<>>
    ELSE IF Head(inner).rule = "down"
         THEN <<[desc |-> TRUE, name |-> inner[2].str]>> \o SortItems(Tail(Tail(inner)))
         ELSE <<[desc |-> FALSE, name |-> Head(inner).str]>> \o SortItems(Tail(inner))

\* C12: order_by() lists the columns of the sort items that name an alias, in
\* the order written, an item with " DESC" exactly when that item carries the
\* "^" prefix; an item that names no alias is skipped and changes no other.
C12_SortOrderAndDirection ==
    (result.op = "order_by" /\ HasSort(query)) =>
        LET known == SelectSeq(SortItems(query[Len(query) - 1].inner),
                               LAMBDA it : IsAlias(it.name))
        IN  result.r =
              Flatten([i \in 1..Len(known) |->
                  (IF i = 1 THEN <<>> ELSE <<", ">>)
                  \o <<Schema[FieldNamed(known[i].name)].db_name>>
                  \o (IF known[i].desc THEN <<" DESC">> ELSE <<>>)])

\* The token table of the BOOL coercion.
TrueWords ==
    { <<"1">>, <<"t", "r", "u", "e">>, <<"w", "a", "h", "r">>, <<"y", "e", "s">>,
      <<"j", "a">>, <<"y">>, <<"j">>, <<"t">>, <<"w">> }

FalseWords ==
    { <<"0">>, <<"f", "a", "l", "s", "e">>, <<"f", "a", "l", "s", "c", "h">>,
      <<"u", "n", "w", "a", "h", "r">>, <<"n", "o">>, <<"n", "o", "t">>,
      <<"n", "e", "i", "n">>, <<"n">>, <<"f">> }

IsBoolWord(w) == to_ascii_lowercase(trim(w)) \in TrueWords \cup FalseWords

\* The predicate on column name for the word w compared with c: the bare
\* column when the boolean of w equals (c = Equal), name=false otherwise.
BoolPredicate(name, c, w) ==
    IF (to_ascii_lowercase(trim(w)) \in TrueWords) = (c = "Equal")
    THEN <<name>> ELSE <<name, "=false">>

\* C13: on a BOOL field a VALUE leaf with comparator c emits BoolPredicate for
\* a word of the token table and fails with a ParseError for any other word;
\* the query f=w emits the predicate of Equal and f!=w emits "NOT " before it.
C13_BoolCoercion ==
    /\ (emitted.op = "to_sql" /\ wraps = 0 /\ term.t = "VALUE"
          /\ term.f.db_type.tag = "BOOL") =>
          IF IsBoolWord(term.s)
          THEN emitted.r = Ok(BoolPredicate(term.f.db_name, term.eq, term.s))
          ELSE ~emitted.r.ok /\ emitted.r.err = "ParseError"
    /\ (/\ result.op = "where_clause"
        /\ IsQualifiedAtom(query)
        /\ InvertsOf(query) = 0
        /\ Len(AtomOf(query).inner) = 3
        /\ Len(AtomOf(query).inner[3].inner) = 1
        /\ IsAlias(QualifierOf(query))
        /\ Schema[FieldNamed(QualifierOf(query))].db_type.tag = "BOOL"
        /\ FieldNamed(QualifierOf(query)) \notin DeniedFields
        /\ AtomOf(query).inner[2].str \in {"=", "==", "!=", "=!"}) =>
          LET w    == AtomOf(query).inner[3].inner[1].str
              name == Schema[FieldNamed(QualifierOf(query))].db_name
          IN  IF ~IsBoolWord(w) THEN ~result.r.ok
              ELSE IF AtomOf(query).inner[2].str \in {"=", "=="}
              THEN result.r = Ok(BoolPredicate(name, "Equal", w))
              ELSE result.r = Ok(<<"NOT ">> \o BoolPredicate(name, "Equal", w))

\* akt != Nein was emitted as NOT aktiv=false.
C13_Witness ==
    /\ result.op = "where_clause"
    /\ IsQualifiedAtom(query)
    /\ QualifierOf(query) = N_akt
    /\ AtomOf(query).inner[2].str = "!="
    /\ AtomOf(query).inner[3].inner[1].str = <<"N", "e", "i", "n">>
    /\ result.r = Ok(<<"NOT ", "aktiv", "=false">>)

\* The term of a qualified atom, its markers ("" for none) and its value.
TermOf(q) == AtomOf(q).inner[Len(AtomOf(q).inner)]

MarkerOf(t, rule) ==
    IF \E i \in 1..Len(t.inner) : t.inner[i].rule = rule
    THEN (CHOOSE p \in { t.inner[i] : i \in 1..Len(t.inner) } : p.rule = rule).str[1]
    ELSE ""

ValueOf(t) ==
    (CHOOSE p \in { t.inner[i] : i \in 1..Len(t.inner) } : p.rule \in {"value", "date"}).str

\* The text between the first and the last quote of an emitted predicate.
PatternOf(v) ==
    LET qs == { i \in 1..Len(v) : v[i] = "'" }
        lo == CHOOSE i \in qs : \A j \in qs : i <= j
        hi == CHOOSE i \in qs : \A j \in qs : j <= i
    IN  SubSeq(v, lo + 1, hi - 1)

\* C14: in the LIKE pattern of an anchored qualified term (the value without
\* "*") a leading "*" gives a leading "%", a leading "^" none, a trailing "*"
\* gives a trailing "%" and a trailing "$" none, in every combination.
C14_AnchorsMapToPattern ==
    (/\ result.op = "where_clause"
     /\ result.r.ok
     /\ IsQualifiedAtom(query)
     /\ IsAlias(QualifierOf(query))
     /\ (MarkerOf(TermOf(query), "starts_with") # ""
           \/ MarkerOf(TermOf(query), "ends_with") # "")
     /\ ~Contains(ValueOf(TermOf(query)), "*")) =>
        LET p  == PatternOf(result.r.v)
            sw == MarkerOf(TermOf(query), "starts_with")
            ew == MarkerOf(TermOf(query), "ends_with")
        IN  /\ \E k \in 1..Len(result.r.v) : result.r.v[k] = " LIKE "
            /\ p # <<>>
            /\ (sw = "*") => p[1] = "%"
            /\ (sw = "^") => p[1] # "%"
            /\ (ew = "*") => p[Len(p)] = "%"
            /\ (ew = "$") => p[Len(p)] # "%"

\* The atoms of an expr, each with the NOTs written directly in front of it.
RECURSIVE AtomGroups(_, _)
AtomGroups(inner, pending) ==
    IF inner = <<>> THEN <<>>
    ELSE CASE Head(inner).rule = "invert" ->
                AtomGroups(Tail(inner), Append(pending, Head(inner)))
           [] Head(inner).rule \in {"and", "or"} -> AtomGroups(Tail(inner), <<>>)
           [] OTHER -> <<Append(pending, Head(inner))>> \o AtomGroups(Tail(inner), <<>>)

HasExpr(q) == Len(q) >= 1 /\ q[1].rule = "expr"

TreeOf(q) == exec(SUCHBAR(options.like_in_numerics), permission, q).v.sql_term

\* C15: a NOT negates only the atom it directly precedes: the tree built for
\* each atom of an expr is the tree of that atom, with its own NOTs, alone.
C15_NotScopedToItsAtom ==
    (pc = "done" /\ HasExpr(query)) =>
        LET g == AtomGroups(query[1].inner, <<>>)
        IN  /\ Len(sql_term.v) = Len(g)
            /\ \A k \in 1..Len(g) :
                  sql_term.v[k] = TreeOf(<<ExprPair(g[k]), EOI>>).v[1]

\* An expr without bin_op between its atoms.
NoBinOp(q) ==
    /\ HasExpr(q)
    /\ \A i \in 1..Len(q[1].inner) : q[1].inner[i].rule \notin {"and", "or"}

\* One bare word: a term of one value, no NOT before it.
IsBareGroup(g) == Len(g) = 1 /\ g[1].rule = "term" /\ Len(g[1].inner) = 1

\* The fan-out of a bare word: an OR over the schema's fields in order.
FanOut(w) ==
    OR([i \in 1..Len(Schema) |->
          LET f == Schema[i]
          IN  IF ~has_perm(permission, f.permission) THEN DENIED
              ELSE IF is_text(f) \/ options.like_in_numerics
                   THEN LIKE(f, <<"*">> \o w \o <<"*">>)
                   ELSE VALUE(f, "Equal", "From", w)])

JoinedBy(sep, rs) ==
    LET s == SelectSeq(rs, LAMBDA r : r.ok)
    IN  IF Len(s) = 0 THEN ParseError("Empty SQLTerm!")
        ELSE IF Len(s) = 1 THEN s[1]
        ELSE Ok(<<"( ">>
                \o Flatten([i \in 1..Len(s) |-> IF i = 1 THEN s[i].v ELSE <<sep>> \o s[i].v])
                \o <<" )">>)

\* C16: an expr without bin_op joins its atoms by AND, one child per atom in
\* the order written; a bare word's child is its fan-out, an OR over the
\* fields, and a sequence of bare words emits the fan-outs joined by " AND ".
C16_DefaultCombinatorIsAnd ==
    /\ (pc = "done" /\ NoBinOp(query)) =>
          LET g == AtomGroups(query[1].inner, <<>>)
          IN  /\ sql_term.t = "AND"
              /\ Len(sql_term.v) = Len(g)
              /\ \A k \in 1..Len(g) :
                    IsBareGroup(g[k]) => sql_term.v[k] = FanOut(g[k][1].inner[1].str)
    /\ (result.op = "where_clause" /\ query \in BareListQueries) =>
          LET g == AtomGroups(query[1].inner, <<>>)
          IN  result.r = JoinedBy(" AND ",
                            [k \in 1..Len(g) |-> to_sql(FanOut(g[k][1].inner[1].str))])

\* `0 1` went out as the fan-out of 0 AND the fan-out of 1.
C16_Witness ==
    /\ result.op = "where_clause"
    /\ query = <<ExprPair(<<TermPair("", Zero, None, ""), TermPair("", One, None, "")>>), EOI>>
    /\ permission = {"READ_OFFER", "ACCESS_PRIVATE"}
    /\ ~options.like_in_numerics
    /\ result.r.ok
    /\ \E k \in 1..Len(result.r.v) - 6 :
          SubSeq(result.r.v, k, k + 6)
             = <<"aktiv", "=false", " )", " AND ", "( ", "artikelnummer", " LIKE ">>

(***************************************************************************)
(* The explanation of the usable fields (Spec).                            *)
(***************************************************************************)
TypeBucket(tag) ==
    CASE tag \in {"VARCHAR", "TEXT"}    -> <<"T", "E", "X", "T">>
      [] tag \in {"INTEGER", "NUMERIC"} -> <<"N", "U", "M", "B", "E", "R">>
      [] tag = "BOOL"                   -> <<"B", "O", "O", "L">>
      [] tag \in {"DATE", "TIMESTAMP"}  -> <<"T", "I", "M", "E">>

\* The text cut into its lines, each without its line feed.
LineFeeds(text) == { i \in 1..Len(text) : text[i] = "\n" }

LinesOf(text) ==
    LET nl == LineFeeds(text)
    IN  [k \in 1..Cardinality(nl) |->
           LET e == CHOOSE i \in nl : Cardinality({ j \in nl : j < i }) = k - 1
               before == { j \in nl : j < e }
               b == IF before = {} THEN 0
                    ELSE CHOOSE j \in before : \A n \in before : n <= j
           IN  SubSeq(text, b + 1, e - 1)]

\* C17: the explanation has one line per field the caller may read, in the
\* order of the schema, and none for any other field; the line is the
\* aliases between brackets, joined by ", ", a blank and the type's bucket:
\* TEXT, NUMBER, BOOL or TIME.
C17_ExplanationListsPermittedFields ==
    (result.op = "explanation") =>
        LET fs    == SelectSeq(result.db_fields,
                               LAMBDA f : has_perm(permission, f.permission))
            lines == LinesOf(result.r)
        IN  /\ Len(lines) = Len(fs)
            /\ result.r # <<>> => result.r[Len(result.r)] = "\n"
            /\ \A i \in 1..Len(fs) :
                  lines[i] = <<"[">>
                             \o Flatten([k \in 1..Len(fs[i].alias) |->
                                   IF k = 1 THEN fs[i].alias[k]
                                   ELSE <<",", " ">> \o fs[i].alias[k]])
                             \o <<"]", " ">> \o TypeBucket(fs[i].db_type.tag)

\* A caller with READ_OFFER only got the lines of the READ_OFFER fields of
\* the schema, the first one being that of artikelnummer, and no line for
\* age or promille.
C17_Witness ==
    /\ result.op = "explanation"
    /\ result.db_fields = Schema
    /\ permission = {"READ_OFFER"}
    /\ Len(LinesOf(result.r)) = 5
    /\ LinesOf(result.r)[1]
          = <<"[", "a", "r", "t", ",", " ", "a", "r", "t", "n", "r", ",", " ",
              "a", "r", "t", "i", "k", "e", "l", "n", "u", "m", "m", "e", "r", ",", " ",
              "a", "r", "t", "i", "k", "e", "l", "n", "r", ",", " ", "a", "n", "o", "]",
              " ", "T", "E", "X", "T">>
    /\ LinesOf(result.r)[3]
          = <<"[", "p", "r", "e", "i", "s", ",", " ", "p", "r", "i", "c", "e", ",", " ",
              "p", "]", " ", "N", "U", "M", "B", "E", "R">>

(***************************************************************************)
(* The INTEGER check, the resolver's cases and the complement (Spec).      *)
(***************************************************************************)
\* The string the type check of a field receives for a value: the value
\* with "?", "*", "'", "_" and "%" rewritten.
Escaped(w) ==
    Flatten([i \in 1..Len(w) |->
               CASE w[i] = "?" -> <<"_">>
                 [] w[i] = "*" -> <<"%">>
                 [] w[i] = "'" -> <<"'", "'">>
                 [] w[i] \in {"_", "%"} -> <<"\\", w[i]>>
                 [] OTHER -> <<w[i]>>])

\* The string parses as an unsigned integer (u64::from_str takes a "+" in
\* front of the digits) between the bounds, both included.
InBounds(t, s) ==
    LET b == IF s # <<>> /\ s[1] = "+" THEN Tail(s) ELSE s
    IN  /\ b # <<>>
        /\ \A i \in 1..Len(b) : b[i] \in {"0", "1", "2", "3", "4", "5", "6", "7", "8", "9"}
        /\ t.min <= DecValue(b)
        /\ DecValue(b) <= t.max

IntegerAccepts(t, w) ==
    InBounds(t, SelectSeq([i \in 1..Len(Escaped(w)) |->
                              IF Escaped(w)[i] = "," THEN "." ELSE Escaped(w)[i]],
                          LAMBDA c : c # "%"))

IsIntegerLeaf(x) == x.t \in {"VALUE", "LIKE"} /\ x.f.db_type.tag = "INTEGER"

\* C18: on an INTEGER(min, max) field a predicate is emitted exactly when the
\* value handed to the type check, with "%" taken out and "," turned into
\* ".", is an unsigned integer v with min <= v <= max; any other value is a
\* ParseError.  In the fan-out of a bare word the column of an INTEGER field
\* the caller may read is present exactly when the word passes that check.
C18_IntegerBounds ==
    /\ (emitted.op = "to_sql" /\ IsIntegerLeaf(term)) =>
          /\ emitted.r.ok <=> IntegerAccepts(term.f.db_type, term.s)
          /\ emitted.r.ok => emitted.r.v[1] = term.f.db_name
          /\ ~emitted.r.ok => emitted.r.err = "ParseError"
    /\ (result.op = "where_clause" /\ IsBareWord(query)) =>
          \A i \in 1..Len(Permitted) :
             Permitted[i].db_type.tag = "INTEGER" =>
                LET handed == IF options.like_in_numerics
                              THEN <<"*">> \o WordOf(query) \o <<"*">>
                              ELSE WordOf(query)
                IN  (result.r.ok /\ Contains(result.r.v, Permitted[i].db_name))
                       <=> IntegerAccepts(Permitted[i].db_type, handed)

\* The bare word 0 gave age=0, 0 being the lower bound of age, next to the
\* branches of the other fields; the branch of promille, which starts at 1,
\* was left out.
C18_Witness ==
    /\ result.op = "where_clause"
    /\ IsBareWord(query)
    /\ WordOf(query) = Zero
    /\ permission = {"READ_OFFER", "ACCESS_PRIVATE"}
    /\ ~options.like_in_numerics
    /\ result.r.ok
    /\ \E k \in 1..Len(result.r.v) - 2 : SubSeq(result.r.v, k, k + 2) = <<"age", "=", "0">>
    /\ Contains(result.r.v, "positionstext")
    /\ ~Contains(result.r.v, "promille")

Odd(n) == n % 2 = 1

\* NOTs written inside a field, between the comparator and the term.
InnerInverts(a) ==
    Cardinality({ i \in 1..Len(a.inner) : a.inner[i].rule = "invert" })

Opposite(c) ==
    CASE c = "Equal" -> "NotEqual" [] c = "NotEqual" -> "Equal"
      [] c = "Gt" -> "Lte" [] c = "Lte" -> "Gt"
      [] c = "Gte" -> "Lt" [] c = "Lt" -> "Gte"

Written(eq) ==
    CASE eq \in {"=", "=="} -> "Equal" [] eq \in {"!=", "=!"} -> "NotEqual"
      [] eq = ">" -> "Gt" [] eq = "<" -> "Lt"
      [] eq \in {">=", "=>"} -> "Gte" [] eq \in {"<=", "=<"} -> "Lte"

\* The comparator the resolver of a single atom works with: the one written
\* (Equal for a bare term), turned round once for an odd number of NOTs.
ComparatorOf(q) ==
    IF AtomOf(q).rule = "term"
    THEN (IF Odd(InvertsOf(q)) THEN "NotEqual" ELSE "Equal")
    ELSE LET w == Written(AtomOf(q).inner[2].str)
         IN  IF Odd(InvertsOf(q) + InnerInverts(AtomOf(q))) THEN Opposite(w) ELSE w

\* The fields a single atom is about: the first field with the qualifier, in
\* lower case, among its aliases, or the whole schema.
SelectedOf(q) ==
    IF AtomOf(q).rule = "term" THEN Schema
    ELSE LET n    == to_ascii_lowercase(QualifierOf(q))
             hits == { i \in 1..Len(Schema) : n \in { Schema[i].alias[k] : k \in 1..Len(Schema[i].alias) } }
         IN  IF hits = {} THEN Schema
             ELSE <<Schema[CHOOSE i \in hits : \A j \in hits : i <= j]>>

\* The term of a single atom, bare or qualified.
TermIn(q) == IF AtomOf(q).rule = "term" THEN AtomOf(q) ELSE TermOf(q)

HasToValue(t) == \E i \in 1..Len(t.inner) : t.inner[i].rule = "from_to"

ToValueOf(t) ==
    (CHOOSE p \in { t.inner[i] : i \in 1..Len(t.inner) } : p.rule = "from_to").inner[1].str

Negated(q) == <<ExprPair(<<InvertPair>> \o q[1].inner), EOI>>

\* The elementary predicate of a leaf.  Of two comparators that exclude each
\* other (= and !=, > and <=, < and >=) the first names the predicate and
\* the second is its negation; a value with a "*" is sent to LIKE whatever
\* the comparator; a BOOL field has the one predicate "the column is true".
PredicateOf(x) ==
    IF x.t = "LIKE" \/ Contains(x.s, "*")
    THEN [col |-> x.f.db_name, op |-> "LIKE", s |-> x.s]
    ELSE IF x.f.db_type.tag = "BOOL"
    THEN [col |-> x.f.db_name, op |-> "TRUE", s |-> <<>>]
    ELSE [col |-> x.f.db_name,
          op  |-> CASE x.eq \in {"Equal", "NotEqual"} -> "Equal"
                    [] x.eq \in {"Gt", "Lte"} -> "Gt"
                    [] x.eq \in {"Lt", "Gte"} -> "Lt",
          s   |-> <<x.d>> \o x.s]

PredicatesOf(x) == { PredicateOf(y) : y \in { z \in SubTerms(x) : z.t \in {"VALUE", "LIKE"} } }

\* The truth value of the SQL of a tree when the predicates in `a` are true
\* and all others false; as in to_sql, a child that emits nothing takes no
\* part in its AND / OR.
RECURSIVE Holds(_, _)
Holds(x, a) ==
    CASE x.t = "AND" -> \A i \in 1..Len(x.v) : to_sql(x.v[i]).ok => Holds(x.v[i], a)
      [] x.t = "OR"  -> \E i \in 1..Len(x.v) : to_sql(x.v[i]).ok /\ Holds(x.v[i], a)
      [] x.t = "NOT" -> ~Holds(x.c, a)
      [] x.t = "LIKE" -> PredicateOf(x) \in a
      [] x.t = "VALUE" ->
            IF Contains(x.s, "*") THEN PredicateOf(x) \in a
            ELSE IF x.f.db_type.tag = "BOOL"
            THEN (PredicateOf(x) \in a) <=> (try_bool(x.s).v = (x.eq = "Equal"))
            ELSE (PredicateOf(x) \in a) <=> (x.eq \in {"Equal", "Gt", "Lt"})
      [] OTHER -> FALSE

\* C20: for every single atom A that emits SQL, NOT A emits SQL too and,
\* under every truth assignment to the predicates on the fields, exactly one
\* of the two is true.
C20_NotIsComplement ==
    (result.op = "where_clause" /\ IsSingleAtom(query) /\ result.r.ok) =>
        LET neg == TreeOf(Negated(query))
        IN  /\ to_sql(neg).ok
            /\ \A a \in SUBSET (PredicatesOf(sql_term) \cup PredicatesOf(neg)) :
                  Holds(neg, a) # Holds(sql_term, a)

(***************************************************************************)
(* One combinator per nesting level (Spec).                                *)
(***************************************************************************)
\* The combinator of one level: that of the last bin_op written, AND if none.
CombinatorOf(e) ==
    LET ops == SelectSeq(e.inner, LAMBDA p : p.rule \in {"and", "or"})
    IN  IF ops # <<>> /\ ops[Len(ops)].rule = "or" THEN "OR" ELSE "AND"

\* The node x is the flat node of the expr e: the level's one combinator over
\* one child per atom, in order; the child of an atom in parentheses is the
\* flat node of that expr, the child of any other atom the OR over the fields
\* the atom is about.
RECURSIVE FlatNode(_, _)
FlatNode(e, x) ==
    LET g == AtomGroups(e.inner, <<>>)
    IN  /\ x.t = CombinatorOf(e)
        /\ Len(x.v) = Len(g)
        /\ \A k \in 1..Len(g) :
              LET atom == g[k][Len(g[k])]
              IN  IF atom.rule = "expr" THEN FlatNode(atom, x.v[k])
                  ELSE /\ x.v[k].t = "OR"
                       /\ Len(x.v[k].v) = Len(SelectedOf(<<ExprPair(g[k]), EOI>>))

\* C21: the atoms of one nesting level are joined by one combinator, OR if
\* the last bin_op of the level is an OR and AND otherwise, without
\* precedence between AND and OR; only an expr in parentheses gives a nested
\* combinator, and the SQL is the children's SQL joined by that combinator.
C21_OneCombinatorPerLevel ==
    /\ (pc = "done" /\ HasExpr(query)) => FlatNode(query[1], sql_term)
    /\ (result.op = "where_clause" /\ HasExpr(query)) =>
          result.r = JoinedBy(IF CombinatorOf(query[1]) = "OR" THEN " OR " ELSE " AND ",
                              [k \in 1..Len(sql_term.v) |-> to_sql(sql_term.v[k])])

\* `age=1 OR 1 AND age=1` was built as AND[a, b, c] and emitted with " AND "
\* between its three atoms.
C21_Witness ==
    /\ result.op = "where_clause"
    /\ HasExpr(query)
    /\ Len(query[1].inner) = 5
    /\ query[1].inner[2].rule = "or"
    /\ query[1].inner[4].rule = "and"
    /\ query[1].inner[3].rule = "term"
    /\ permission = {"READ_OFFER", "ACCESS_PRIVATE"}
    /\ sql_term.t = "AND"
    /\ Len(sql_term.v) = 3
    /\ result.r.ok
    /\ result.r.v[1] = "( "
    /\ SubSeq(result.r.v, 2, 5) = <<"age", "=", "1", " AND ">>
    /\ SubSeq(result.r.v, Len(result.r.v) - 5, Len(result.r.v))
          = <<" )", " AND ", "age", "=", "1", " )">>

====
